---------------------------- MODULE Spec2Model ----------------------------
(***************************************************************************)
(* Verification model of github-activity-metrics: the rate limiter (Quota  *)
(* Governor), the concurrent collection orchestrator, the batch and event  *)
(* store operations of the two storage adapters, and the time-series gap   *)
(* filling of the aggregation engine.                                      *)
(*                                                                         *)
(* The module holds several state machines, each over its own group of     *)
(* variables and with its own specification (SpecLimiter, SpecCollect,     *)
(* SpecPool, SpecEvents, SpecBatch, SpecStatus, SpecSeries, SpecMetrics);  *)
(* the actions of one leave the variables of the others unchanged.         *)
(* SpecUnwind runs the workers of the collection under the limiter's       *)
(* budget and a context that can be cancelled, with weak fairness for the  *)
(* goroutines.  SpecFetch steps one call of a fetcher (GetRepositories,    *)
(* GetCommits, GetPullRequests, GetDeploys) through its Waits, its list    *)
(* pages and its follow-up calls.                                          *)
(***************************************************************************)
EXTENDS Integers, Sequences, FiniteSets, TLC

VARIABLES
    \* ---- rate limiter: githubRateLimiter and its callers ----
    now,          \* the clock, in units of 50ms
    ticks,        \* number of clock advances so far (bounds the run)
    updates,      \* number of upstream responses so far (bounds the run)
    calls,        \* number of Wait calls started so far (bounds the run)
    ctxDone,      \* the context the callers pass to Wait is cancelled
    mu,           \* r.mu: the caller holding it, or NoOne
    remaining,    \* r.remaining
    resetTime,    \* r.resetTime
    lastCall,     \* r.lastCall
    lpc,          \* per caller: position inside Wait
    deadline,     \* per caller: when the timer of its select fires
    wake,         \* per caller: the select case that became ready first
    lastRes,      \* per caller: result of its last finished Wait, "sent" once the
                  \* upstream request that follows a nil result is in flight
    lowSeen,      \* per caller: resetTime seen by the low-budget check of its last call
    waitedCancel, \* per caller: the context was cancelled while its last call was blocked
    \* ---- durable store: one storage adapter and its tables ----
    adapter,      \* "postgres" or "sqlite": which adapter the process was built with
    sclock,       \* the clock the store and the fetchers stamp rows with
    events,       \* table events: id -> row
    batches,      \* table collection_batches: id -> row
    batchRepos,   \* table batch_repositories: <<batch_id, owner, repo_name>> -> row
    \* ---- clients of the store ----
    fetched,      \* the events the fetchers have built so far
    saved,        \* the events passed to SaveRawEvents so far
    bpc,          \* per client: position inside CreateOrGetBatch
    breq,         \* per client: the batch it passed to CreateOrGetBatch
    bres,         \* per client: what its last CreateOrGetBatch returned: [id, err]
    \* ---- callers of the batch-repository status operations ----
    sCall,        \* the last call: [op, batchID, repo, status]
    sRet,         \* what it returned: an error, or the set of completed repositories
    \* ---- time series ----
    tsQuery,      \* the last time-series request: [path, start, end, granularity]
    tsResult,     \* the data points it returned
    \* ---- rollups and rankings ----
    mQuery,       \* the last metrics request: [kind, rankingType, limit, start, end]
    mResult,      \* what it returned
    \* ---- collection: one collect command and its workers ----
    variant,      \* "plain": CollectOrganizationData / CollectUserData under runCollect;
                  \* "callback": the ...WithCallback form under a batch-tracking caller
    cmode,        \* "organization" or "user"
    repos,        \* the repositories GetRepositories / GetUserRepositories returns
    cpc,          \* position of the collect command
    run,          \* how many times the command has been started
    lastRun,      \* how many times the command is run in all
    curBatch,     \* id of the batch the caller works on, or NoBatch
    wpc,          \* per repository: position of its worker goroutine
    semaphore,    \* number of slots taken in the semaphore channel
    allEvents,    \* allEvents of the plain form: the fetch results appended so
                  \* far, each as <<repository, fetch>> (no order is promised)
    errCh,        \* errors sent to errCh: <<repository, fetch>>, fetch "save" for
                  \* an error of onRepoComplete
    collectRes,   \* what the collect call returned: [events, err]
    cmdErr,       \* what the command returned to its caller, "none" before that
    \* ---- one call of a fetcher: GetRepositories, GetCommits, GetPullRequests
    \*      or GetDeploys ----
    fkind,        \* which fetcher: "repos", "commits", "prs" or "deploys"
    upstream,     \* the items the upstream lists for the call, in its order
    fpc,          \* position of the fetcher
    fpage,        \* opts.Page: the page it lists
    fitem,        \* index in the page of the item the range loop is at
    acc,          \* allRepos / allCommits / allPRs / allDeploys
    fret,         \* what the fetcher returned: [items, err]
    lastWait,     \* result of the last Wait, "none" once an upstream call followed it
    fstatus,      \* status of the last upstream response
    sawError,     \* an upstream call answered with an error the fetcher has no case for
    fretries      \* number of retries after a rate-limit answer so far (bounds the run)

limVars == <<now, ticks, updates, calls, ctxDone, mu, remaining, resetTime, lastCall,
             lpc, deadline, wake, lastRes, lowSeen, waitedCancel>>

storeVars == <<adapter, sclock, events, batches, batchRepos>>

collectVars == <<variant, cmode, repos, cpc, run, lastRun, curBatch, wpc, semaphore,
                 allEvents, errCh, collectRes, cmdErr>>

clientVars == <<fetched, saved, bpc, breq, bres, sCall, sRet>>

seriesVars == <<tsQuery, tsResult>>

metricsVars == <<mQuery, mResult>>

fetchVars == <<fkind, upstream, fpc, fpage, fitem, acc, fret, lastWait, fstatus, sawError,
               fretries>>

vars == <<limVars, storeVars, clientVars, collectVars, seriesVars, metricsVars, fetchVars>>

\* what the actions of one part leave alone
nonLimVars == <<storeVars, clientVars, collectVars, seriesVars, metricsVars, fetchVars>>

nonCollectVars == <<limVars, clientVars, seriesVars, metricsVars, fetchVars>>

nonStoreVars == <<limVars, collectVars, seriesVars, metricsVars, fetchVars>>

nonSeriesVars == <<limVars, clientVars, collectVars, metricsVars, fetchVars>>

nonMetricsVars == <<limVars, clientVars, collectVars, seriesVars, fetchVars>>

nonFetchVars == <<limVars, storeVars, clientVars, collectVars, seriesVars, metricsVars>>

-----------------------------------------------------------------------------
(* Bounds of the model *)
NumCallers == 2
MaxCalls == 3
MaxTicks == 1
MaxUpdates == 1

(* Program constants of the rate limiter; the clock unit is 50ms *)
Ceiling == 5000
Threshold == 10
MinDelay == 2
Hour == 72000
ZeroTime == 0

Callers == 1..NumCallers
NoOne == 0
None == -1

-----------------------------------------------------------------------------
(* NewRateLimiter: remaining 5000, resetTime now+1h, lastCall the zero time.
   The process starts long after the zero time. *)
LimInit ==
    /\ now = Hour
    /\ ticks = 0
    /\ updates = 0
    /\ calls = 0
    /\ ctxDone = FALSE
    /\ mu = NoOne
    /\ remaining = Ceiling
    /\ resetTime = Hour + Hour
    /\ lastCall = ZeroTime
    /\ lpc = [c \in Callers |-> "idle"]
    /\ deadline = [c \in Callers |-> None]
    /\ wake = [c \in Callers |-> "none"]
    /\ lastRes = [c \in Callers |-> "none"]
    /\ lowSeen = [c \in Callers |-> None]
    /\ waitedCancel = [c \in Callers |-> FALSE]

-----------------------------------------------------------------------------
(* Pure parts of Wait *)

\* line 41: the low-budget test
LowBudget(rem) == rem <= Threshold

\* a wrong sign: time.Since where time.Until is meant
WaitDuration_Since(reset, t) == t - reset

\* line 42: time.Until(r.resetTime)
WaitDuration(reset, t) == reset - t

\* lines 61-62 and 68: how long the spacing select sleeps (0: no wait)
SpacingWait(last, t) ==
    IF t - last < MinDelay THEN MinDelay - (t - last) ELSE 0

\* a select whose ctx.Done() case falls through instead of returning ctx.Err()
SelectResult_IgnoreCtx(w) == "ok"

\* lines 46-52 and 64-70: what the select's ready case makes Wait do
SelectResult(w) == IF w = "ctx" THEN "err" ELSE "ok"

\* lines 56-57: the budget after the quota wait
ResetBudget(t) == <<Ceiling, t + Hour>>

-----------------------------------------------------------------------------
(* Wait, step by step.  A select that blocks is woken by the first of its
   cases to become ready: the context's cancellation or the timer. *)

\* a select entered without r.mu.Unlock()
EnterSelect_KeepLock(c, where, d) ==
    /\ mu' = mu
    /\ lpc' = [lpc EXCEPT ![c] = where]
    /\ deadline' = [deadline EXCEPT ![c] = now + d]
    /\ wake' = [wake EXCEPT ![c] = IF ctxDone THEN "ctx" ELSE "none"]
    /\ waitedCancel' = [waitedCancel EXCEPT ![c] = @ \/ ctxDone]

\* r.mu.Unlock() and the select of lines 45-46 / 63-64
EnterSelect(c, where, d) ==
    /\ mu' = NoOne
    /\ lpc' = [lpc EXCEPT ![c] = where]
    /\ deadline' = [deadline EXCEPT ![c] = now + d]
    /\ wake' = [wake EXCEPT ![c] = IF ctxDone THEN "ctx" ELSE "none"]
    /\ waitedCancel' = [waitedCancel EXCEPT ![c] = @ \/ ctxDone]

\* return res, with the deferred r.mu.Unlock() of line 38
Return(c, res) ==
    /\ mu' = NoOne
    /\ lpc' = [lpc EXCEPT ![c] = "idle"]
    /\ deadline' = [deadline EXCEPT ![c] = None]
    /\ wake' = [wake EXCEPT ![c] = "none"]
    /\ lastRes' = [lastRes EXCEPT ![c] = res]

\* lines 60-75, entered with the lock held
Spacing(c) ==
    LET w == SpacingWait(lastCall, now) IN
    IF w > 0
    THEN /\ EnterSelect(c, "ssel", w)
         /\ UNCHANGED <<lastCall, lastRes>>
    ELSE /\ lastCall' = now
         /\ Return(c, "ok")
         /\ UNCHANGED waitedCancel

\* a caller enters Wait (a caller with a request in flight waits for its
\* response first)
CallWait(c) ==
    /\ lpc[c] = "idle"
    /\ lastRes[c] # "sent"
    /\ calls < MaxCalls
    /\ calls' = calls + 1
    /\ lpc' = [lpc EXCEPT ![c] = "lock"]
    /\ lastRes' = [lastRes EXCEPT ![c] = "none"]
    /\ lowSeen' = [lowSeen EXCEPT ![c] = None]
    /\ waitedCancel' = [waitedCancel EXCEPT ![c] = FALSE]
    /\ UNCHANGED <<now, ticks, updates, ctxDone, mu, remaining, resetTime, lastCall,
                   deadline, wake>>
    /\ UNCHANGED nonLimVars

\* line 37: r.mu.Lock()
LockMu(c) ==
    /\ lpc[c] = "lock"
    /\ mu = NoOne
    /\ mu' = c
    /\ lpc' = [lpc EXCEPT ![c] = "check"]
    /\ UNCHANGED <<now, ticks, updates, calls, ctxDone, remaining, resetTime, lastCall,
                   deadline, wake, lastRes, lowSeen, waitedCancel>>
    /\ UNCHANGED nonLimVars

\* lines 41-45 and 56-71 up to the first select or the return
Check(c) ==
    /\ lpc[c] = "check"
    /\ mu = c
    /\ IF LowBudget(remaining)
       THEN IF WaitDuration(resetTime, now) > 0
            THEN /\ EnterSelect(c, "qsel", WaitDuration(resetTime, now))
                 /\ lowSeen' = [lowSeen EXCEPT ![c] = resetTime]
                 /\ UNCHANGED <<remaining, resetTime, lastCall, lastRes>>
            ELSE /\ remaining' = ResetBudget(now)[1]
                 /\ resetTime' = ResetBudget(now)[2]
                 /\ Spacing(c)
                 /\ UNCHANGED lowSeen
       ELSE /\ Spacing(c)
            /\ UNCHANGED <<remaining, resetTime, lowSeen>>
    /\ UNCHANGED <<now, ticks, updates, calls, ctxDone>>
    /\ UNCHANGED nonLimVars

\* the timer of a blocked select fires (never before its deadline)
TimerFire(c) ==
    /\ lpc[c] \in {"qsel", "ssel"}
    /\ wake[c] = "none"
    /\ now >= deadline[c]
    /\ wake' = [wake EXCEPT ![c] = "timer"]
    /\ UNCHANGED <<now, ticks, updates, calls, ctxDone, mu, remaining, resetTime,
                   lastCall, lpc, deadline, lastRes, lowSeen, waitedCancel>>
    /\ UNCHANGED nonLimVars

\* the context is cancelled; every select still blocked takes ctx.Done()
Cancel ==
    /\ ~ctxDone
    /\ ctxDone' = TRUE
    /\ wake' = [c \in Callers |->
                  IF lpc[c] \in {"qsel", "ssel"} /\ wake[c] = "none" THEN "ctx" ELSE wake[c]]
    /\ waitedCancel' = [c \in Callers |->
                  waitedCancel[c] \/ (lpc[c] \in {"qsel", "ssel"} /\ wake[c] = "none")]
    /\ UNCHANGED <<now, ticks, updates, calls, mu, remaining, resetTime, lastCall, lpc,
                   deadline, lastRes, lowSeen>>
    /\ UNCHANGED nonLimVars

\* a select case that goes on without r.mu.Lock()
Relock_NoLock(c) ==
    /\ lpc[c] \in {"qsel", "ssel"}
    /\ wake[c] # "none"
    /\ lpc' = [lpc EXCEPT ![c] = IF lpc[c] = "qsel" THEN "qwoke" ELSE "swoke"]
    /\ UNCHANGED <<now, ticks, updates, calls, ctxDone, mu, remaining, resetTime,
                   lastCall, deadline, wake, lastRes, lowSeen, waitedCancel>>
    /\ UNCHANGED nonLimVars

\* lines 48 / 51 / 66 / 69: r.mu.Lock() in the woken select case
Relock(c) ==
    /\ lpc[c] \in {"qsel", "ssel"}
    /\ wake[c] # "none"
    /\ mu = NoOne
    /\ mu' = c
    /\ lpc' = [lpc EXCEPT ![c] = IF lpc[c] = "qsel" THEN "qwoke" ELSE "swoke"]
    /\ UNCHANGED <<now, ticks, updates, calls, ctxDone, remaining, resetTime, lastCall,
                   deadline, wake, lastRes, lowSeen, waitedCancel>>
    /\ UNCHANGED nonLimVars

\* lines 49 / 53-71: after the quota select
AfterQuota(c) ==
    /\ lpc[c] = "qwoke"
    /\ mu = c
    /\ IF SelectResult(wake[c]) = "err"
       THEN /\ Return(c, "err")
            /\ UNCHANGED <<remaining, resetTime, lastCall, waitedCancel>>
       ELSE /\ remaining' = ResetBudget(now)[1]
            /\ resetTime' = ResetBudget(now)[2]
            /\ Spacing(c)
    /\ UNCHANGED <<now, ticks, updates, calls, ctxDone, lowSeen>>
    /\ UNCHANGED nonLimVars

\* lines 67 / 73-74: after the spacing select
AfterSpacing(c) ==
    /\ lpc[c] = "swoke"
    /\ mu = c
    /\ IF SelectResult(wake[c]) = "err"
       THEN /\ Return(c, "err")
            /\ UNCHANGED lastCall
       ELSE /\ lastCall' = now
            /\ Return(c, "ok")
    /\ UNCHANGED <<now, ticks, updates, calls, ctxDone, remaining, resetTime, lowSeen,
                   waitedCancel>>
    /\ UNCHANGED nonLimVars

\* lines 85-90, UpdateLimit: under the lock, store what was reported
UpdateLimit(rem, reset) ==
    /\ mu = NoOne
    /\ remaining' = rem
    /\ resetTime' = reset

\* lines 1326-1330, updateRateLimitFromResponse: a response that carries no
\* rate (rem < 0) updates nothing
updateRateLimitFromResponse(rem, reset) ==
    IF rem >= 0 THEN UpdateLimit(rem, reset) ELSE UNCHANGED <<remaining, resetTime>>

\* lines 77-82, CheckLimit: lock, read, unlock
CheckLimit ==
    /\ mu = NoOne
    /\ UNCHANGED limVars
    /\ UNCHANGED nonLimVars

\* lines 650-662 / 686-690 / 725-662: after a Wait that returned nil the caller
\* starts its upstream request
StartRequest(c) ==
    /\ lpc[c] = "idle"
    /\ lastRes[c] = "ok"
    /\ lastRes' = [lastRes EXCEPT ![c] = "sent"]
    /\ UNCHANGED <<now, ticks, updates, calls, ctxDone, mu, remaining, resetTime,
                   lastCall, lpc, deadline, wake, lowSeen, waitedCancel>>
    /\ UNCHANGED nonLimVars

\* lines 662-671 / 690-692: the response of the request arrives and its rate
\* headers are handed to the limiter
Response(c, rem, reset) ==
    /\ lastRes[c] = "sent"
    /\ updates < MaxUpdates
    /\ updates' = updates + 1
    /\ updateRateLimitFromResponse(rem, reset)
    /\ lastRes' = [lastRes EXCEPT ![c] = "none"]
    /\ UNCHANGED <<now, ticks, calls, ctxDone, mu, lastCall, lpc, deadline, wake,
                   lowSeen, waitedCancel>>
    /\ UNCHANGED nonLimVars

\* the clock advances by one unit or to the deadline of a sleeping select
NextTimes == {now + 1} \cup {deadline[c] : c \in {d \in Callers :
                                lpc[d] \in {"qsel", "ssel"} /\ deadline[d] > now}}

Tick(t) ==
    /\ ticks < MaxTicks
    /\ ticks' = ticks + 1
    /\ now' = t
    /\ UNCHANGED <<updates, calls, ctxDone, mu, remaining, resetTime, lastCall, lpc,
                   deadline, wake, lastRes, lowSeen, waitedCancel>>
    /\ UNCHANGED nonLimVars

LimNext ==
    \/ \E c \in Callers : CallWait(c)
    \/ \E c \in Callers : LockMu(c)
    \/ \E c \in Callers : Check(c)
    \/ \E c \in Callers : TimerFire(c)
    \/ Cancel
    \/ \E c \in Callers : Relock(c)
    \/ \E c \in Callers : AfterQuota(c)
    \/ \E c \in Callers : AfterSpacing(c)
    \/ \E c \in Callers : StartRequest(c)
    \/ \E c \in Callers, rem \in {None, Threshold, Threshold + 1},
          reset \in {now + MinDelay, now + Hour} : Response(c, rem, reset)
    \/ CheckLimit
    \/ \E t \in NextTimes : Tick(t)

-----------------------------------------------------------------------------
(* Properties of the rate limiter *)

Returns(c) == lpc[c] # "idle" /\ lpc'[c] = "idle"

\* C7: a Wait that finds remaining <= 10 with the reset time still ahead suspends;
\* it does not return nil before that reset time, and when its quota wait
\* resumes, remaining is 5000 and resetTime is the clock plus one hour.
C7_LowBudgetWaitsForReset ==
    [][\A c \in Callers :
        /\ (lpc[c] = "check" /\ lpc'[c] # "check" /\ remaining <= Threshold /\ resetTime > now)
              => (lpc'[c] = "qsel" /\ lowSeen'[c] = resetTime)
        /\ (lpc[c] = "qwoke" /\ lpc'[c] # "qwoke" /\ lastRes'[c] # "err")
              => (now >= lowSeen[c] /\ remaining' = Ceiling /\ resetTime' = now + Hour)
        /\ (Returns(c) /\ lastRes'[c] = "ok" /\ lowSeen[c] # None)
              => now >= lowSeen[c]
      ]_vars

\* a call that met a low budget before the reset time has returned nil
C7_Witness ==
    \E c \in Callers : lastRes[c] = "ok" /\ lowSeen[c] # None /\ now >= lowSeen[c]

\* C8: Wait returns an error exactly when the context was cancelled while the
\* call was blocked in one of its two waits; a low budget alone gives no
\* error; and a cancelled waiter can return at once, whatever the clock.
C8_ErrorIffCancelledWhileWaiting ==
    /\ [][\A c \in Callers :
            Returns(c) =>
               /\ lastRes'[c] \in {"ok", "err"}
               /\ (lastRes'[c] = "err") <=> waitedCancel[c]
               /\ (lastRes'[c] = "err") => ctxDone
         ]_vars
    /\ [](\A c \in Callers :
            (lpc[c] \in {"qsel", "ssel"} /\ ctxDone /\ wake[c] # "timer" /\ mu = NoOne)
               => ENABLED Relock(c))
    /\ [](\A c \in Callers :
            (lpc[c] \in {"qwoke", "swoke"} /\ waitedCancel[c])
               => ENABLED (  (AfterQuota(c) \/ AfterSpacing(c))
                          /\ lastRes'[c] = "err" /\ now' = now))

\* a quota wait was cancelled and returned the error before the reset time
C8_Witness ==
    \E c \in Callers :
        lastRes[c] = "err" /\ waitedCancel[c] /\ lowSeen[c] # None /\ now < lowSeen[c]

\* C9: any two successful returns of Wait are at least the minimum delay
\* apart (r.lastCall is the clock of the previous successful return).
C9_MinSpacing ==
    [][\A c \in Callers :
          (Returns(c) /\ lastRes'[c] = "ok")
             => (lastCall = ZeroTime \/ now - lastCall >= MinDelay)
      ]_vars

\* C19: no upstream request is started while the limiter's last observed
\* remaining is at or below the threshold and its reset time is still ahead.
C19_GovernorGatesEveryCall ==
    [][\A c \in Callers :
          (lastRes[c] = "ok" /\ lastRes'[c] = "sent")
             => ~(LowBudget(remaining) /\ WaitDuration(resetTime, now) > 0)
      ]_vars

\* the callers suspended in one of the two selects of Wait
Suspended == {c \in Callers : lpc[c] \in {"qsel", "ssel"} /\ wake[c] = "none"}

\* C20: a caller suspended in Wait does not hold the lock; whoever holds it
\* is at a step that releases it without the clock advancing; and while the
\* lock is free, a caller at r.mu.Lock(), an UpdateLimit and a CheckLimit
\* can take it.
C20_LockNotHeldAcrossWait ==
    /\ \A c \in Callers : lpc[c] \in {"qsel", "ssel"} => mu # c
    /\ mu # NoOne =>
          /\ lpc[mu] \in {"check", "qwoke", "swoke"}
          /\ ENABLED (  (Check(mu) \/ AfterQuota(mu) \/ AfterSpacing(mu))
                      /\ mu' = NoOne /\ now' = now)
    /\ (Suspended # {} /\ mu = NoOne) =>
          /\ \A d \in Callers : lpc[d] = "lock" => ENABLED LockMu(d)
          /\ ENABLED UpdateLimit(Threshold, now + Hour)
          /\ ENABLED CheckLimit

\* while one caller is suspended in its quota wait, another has taken the lock
C20_Witness ==
    \E c \in Suspended, d \in Callers :
        lpc[c] = "qsel" /\ d # c /\ mu = d /\ now < deadline[c]

\* the callers at a place of Wait where the code takes r.mu to be locked by
\* the caller: from line 37 to an r.mu.Unlock(), and from the r.mu.Lock() of
\* a select case to the next r.mu.Unlock() or the return
InsideLock == {c \in Callers : lpc[c] \in {"check", "qwoke", "swoke"}}

\* C28: a caller of Wait is at a place where the code takes the mutex to be
\* locked exactly when it holds the mutex; so every r.mu.Unlock() of Wait,
\* the deferred one at the return included, unlocks a mutex its caller
\* holds, and a caller that has returned holds nothing.
C28_UnlockMatchesLock ==
    /\ \A c \in Callers : c \in InsideLock <=> mu = c
    /\ Cardinality(InsideLock) <= 1

\* with two callers at work, one Wait returned the context's error from its
\* quota wait and another returned nil, and the mutex is free
C28_Witness ==
    /\ mu = NoOne
    /\ \E c, d \in Callers :
          /\ c # d /\ lpc[c] = "idle" /\ lpc[d] = "idle"
          /\ lastRes[c] = "err" /\ lowSeen[c] # None
          /\ lastRes[d] \in {"ok", "sent"}

-----------------------------------------------------------------------------
(* The durable store.  Both adapters keep the same three tables; where their
   statements differ the operators take the adapter as parameter ad. *)

Adapters == {"postgres", "sqlite"}

EmptyTable == [k \in {} |-> k]

\* batch.ID == "": the caller left the id to CreateOrGetBatch
NoBatch == ""

\* an id that depends on the moment of the fetch, as a fresh uuid does
EventID_Fresh(org, repo, tag, key) ==
    org \o "-" \o repo \o "-" \o tag \o "-" \o ToString(sclock)

\* fmt.Sprintf("%s-%s-<tag>-%s", org, repo, key) of the three fetchers
EventID(org, repo, tag, key) ==
    org \o "-" \o repo \o "-" \o tag \o "-" \o key

\* GetCommits line 701
CommitID(org, repo, sha) == EventID(org, repo, "commit", sha)

\* GetPullRequests line 777
PullRequestID(org, repo, number) == EventID(org, repo, "pr", ToString(number))

\* GetDeploys line 859
DeployID(org, repo, id) == EventID(org, repo, "deploy", ToString(id))

\* the event a fetcher builds from one upstream item at clock t
\* (CommitEvent / PullRequestEvent / DeployEvent and their ToEvent)
FetchedEvent(org, repo, item, t) ==
    [id        |-> CASE item.kind = "commit" -> CommitID(org, repo, item.sha)
                     [] item.kind = "pull_request" -> PullRequestID(org, repo, item.number)
                     [] OTHER -> DeployID(org, repo, item.number),
     type      |-> item.kind,
     owner     |-> org,
     ownerType |-> "organization",
     repo      |-> repo,
     member    |-> item.member,
     timestamp |-> item.timestamp,
     sha       |-> item.sha,
     number    |-> item.number,
     additions |-> item.additions,
     deletions |-> item.deletions,
     createdAt |-> t]

\* one INSERT of SaveRawEvents: postgres updates every column but created_at
\* on a conflicting id, sqlite replaces the row
UpsertEvent(ad, rows, e) ==
    IF e.id \in DOMAIN rows
    THEN IF ad = "postgres"
         THEN [rows EXCEPT ![e.id] = [e EXCEPT !.createdAt = rows[e.id].createdAt]]
         ELSE [rows EXCEPT ![e.id] = e]
    ELSE rows @@ (e.id :> e)

\* SaveRawEvents: one transaction, the events in slice order
RECURSIVE SaveRawEvents(_, _, _)
SaveRawEvents(ad, rows, evs) ==
    IF evs = <<>> THEN rows
    ELSE SaveRawEvents(ad, UpsertEvent(ad, rows, Head(evs)), Tail(evs))

\* a slice holding the events of a set, in some order
RECURSIVE SliceOf(_)
SliceOf(S) ==
    IF S = {} THEN <<>>
    ELSE LET e == CHOOSE x \in S : TRUE IN <<e>> \o SliceOf(S \ {e})

\* fmt.Sprintf("%s-%s-%d-%d", mode, owner, start.Unix(), end.Unix())
DerivedBatchID(mode, owner, start, end) ==
    mode \o "-" \o owner \o "-" \o ToString(start) \o "-" \o ToString(end)

\* the SELECT of CreateOrGetBatch: the matching batches that ORDER BY created_at
\* DESC LIMIT 1 can return (more than one only when created_at ties)
SelectBatch(bs, req) ==
    LET match == {id \in DOMAIN bs :
                     /\ bs[id].mode = req.mode /\ bs[id].owner = req.owner
                     /\ bs[id].start = req.start /\ bs[id].end = req.end}
    IN {id \in match : \A o \in match : bs[id].createdAt >= bs[o].createdAt}

\* the row CreateOrGetBatch inserts when the SELECT found nothing
NewBatchRow(req, t) ==
    [id        |-> IF req.id = NoBatch
                   THEN DerivedBatchID(req.mode, req.owner, req.start, req.end)
                   ELSE req.id,
     mode      |-> req.mode,
     owner     |-> req.owner,
     start     |-> req.start,
     end       |-> req.end,
     status    |-> req.status,
     createdAt |-> t]

\* the INSERT of CreateOrGetBatch: [rows, id, err].  postgres: ON CONFLICT (id)
\* DO UPDATE updated_at RETURNING the stored row; sqlite: a plain INSERT, which
\* the primary key rejects
InsertBatch(ad, bs, row) ==
    IF row.id \in DOMAIN bs
    THEN IF ad = "postgres"
         THEN [rows |-> bs, id |-> row.id, err |-> "nil"]
         ELSE [rows |-> bs, id |-> NoBatch, err |-> "UNIQUE constraint failed"]
    ELSE [rows |-> bs @@ (row.id :> row), id |-> row.id, err |-> "nil"]

\* CreateOrGetBatch run without interruption: [rows, id, err]
CreateOrGetBatch(ad, bs, req, t) ==
    LET found == SelectBatch(bs, req) IN
    IF found # {}
    THEN [rows |-> bs, id |-> CHOOSE id \in found : TRUE, err |-> "nil"]
    ELSE InsertBatch(ad, bs, NewBatchRow(req, t))

\* UpdateBatchStatus
UpdateBatchStatus(bs, id, status) ==
    IF id \in DOMAIN bs THEN [bs EXCEPT ![id].status = status] ELSE bs

\* a query that forgets the batch
GetCompletedReposForBatch_AnyBatch(brs, batchID) ==
    {k[3] : k \in {x \in DOMAIN brs : brs[x].status = "completed"}}

\* GetCompletedReposForBatch
GetCompletedReposForBatch(brs, batchID) ==
    {k[3] : k \in {x \in DOMAIN brs : x[1] = batchID /\ brs[x].status = "completed"}}

\* SaveBatchRepository: insert, or overwrite the row of the same key
SaveBatchRepository(brs, key, row) ==
    IF key \in DOMAIN brs THEN [brs EXCEPT ![key] = row] ELSE brs @@ (key :> row)

\* UpdateBatchRepositoryStatus: the UPDATE, then the insert each adapter falls
\* back to: postgres when no row was affected, sqlite only when the UPDATE
\* itself returned an error (an UPDATE that matches no row returns none)
UpdateBatchRepositoryStatus(ad, brs, batchID, owner, repoName, status, eventsCount, err) ==
    LET key == <<batchID, owner, repoName>>
        row == [status      |-> status,
                eventsCount |-> eventsCount,
                error       |-> IF status = "failed" THEN err ELSE ""]
    IN IF key \in DOMAIN brs
       THEN [brs EXCEPT ![key] = row]
       ELSE IF ad = "postgres" THEN SaveBatchRepository(brs, key, row) ELSE brs

\* a store of either adapter with empty tables
StoreInit ==
    /\ adapter \in Adapters
    /\ sclock = 0
    /\ events = EmptyTable
    /\ batches = EmptyTable
    /\ batchRepos = EmptyTable

\* the store while no operation of it is part of the run
StoreIdle ==
    /\ adapter = "postgres"
    /\ sclock = 0
    /\ events = EmptyTable
    /\ batches = EmptyTable
    /\ batchRepos = EmptyTable

-----------------------------------------------------------------------------
(* Clients of the store: fetchers that build events and save them, and
   concurrent callers of CreateOrGetBatch.  The two statements of
   CreateOrGetBatch are separate steps: the adapters run them outside a
   transaction. *)

\* Bounds of the model
NumClients == 2
MaxFetches == 2

Clients == 1..NumClients

\* owners and repository names; GitHub allows hyphens in both
Owners == {"a", "a-b"}
RepoNames == {"c", "b-c"}

\* upstream items: one commit, one pull request, one deployment
UpstreamItems ==
    {[kind |-> "commit", sha |-> "x", number |-> 0, member |-> "dev", timestamp |-> 1,
      additions |-> 1, deletions |-> 0],
     [kind |-> "pull_request", sha |-> "", number |-> 1, member |-> "dev", timestamp |-> 1,
      additions |-> 0, deletions |-> 0],
     [kind |-> "deploy", sha |-> "", number |-> 1, member |-> "dev", timestamp |-> 1,
      additions |-> 0, deletions |-> 0]}

Windows == {[start |-> 1, end |-> 2], [start |-> 1, end |-> 3]}

\* the batches a caller may pass, the id left to CreateOrGetBatch
BatchRequests ==
    {[id |-> NoBatch, mode |-> m, owner |-> "a",
      start |-> w.start, end |-> w.end, status |-> "in_progress"] :
        m \in {"organization", "user"}, w \in Windows}

NoRequest == [id |-> NoBatch, mode |-> "", owner |-> "", start |-> 0, end |-> 0,
              status |-> ""]
NoReturn == [id |-> NoBatch, err |-> "none"]
NoCall == [op |-> "none", batchID |-> NoBatch, repo |-> "", status |-> ""]

ClientInit ==
    /\ fetched = {}
    /\ saved = {}
    /\ bpc = [c \in Clients |-> "idle"]
    /\ breq = [c \in Clients |-> NoRequest]
    /\ bres = [c \in Clients |-> NoReturn]
    /\ sCall = NoCall
    /\ sRet = "none"

\* a fetcher builds the event of one upstream item (GetCommits lines 700-717,
\* GetPullRequests 776-792, GetDeploys 858-873); CreatedAt is time.Now()
Fetch(org, repo, item) ==
    /\ sclock < MaxFetches
    /\ sclock' = sclock + 1
    /\ fetched' = fetched \cup {FetchedEvent(org, repo, item, sclock)}
    /\ UNCHANGED <<adapter, events, batches, batchRepos, saved, bpc, breq, bres, sCall, sRet>>
    /\ UNCHANGED nonStoreVars

\* the slices of one or two events fetched so far
Slices == {<<e>> : e \in fetched} \cup {<<e, f>> : e \in fetched, f \in fetched}

\* SaveRawEvents(ctx, evs)
SaveFetched(evs) ==
    /\ events' = SaveRawEvents(adapter, events, evs)
    /\ saved' = saved \cup {evs[i] : i \in DOMAIN evs}
    /\ UNCHANGED <<adapter, sclock, batches, batchRepos, fetched, bpc, breq, bres, sCall, sRet>>
    /\ UNCHANGED nonStoreVars

\* a client calls CreateOrGetBatch(ctx, req)
CallCreateOrGetBatch(c, req) ==
    /\ bpc[c] = "idle"
    /\ bpc' = [bpc EXCEPT ![c] = "select"]
    /\ breq' = [breq EXCEPT ![c] = req]
    /\ bres' = [bres EXCEPT ![c] = NoReturn]
    /\ UNCHANGED <<storeVars, fetched, saved, sCall, sRet>>
    /\ UNCHANGED nonStoreVars

\* the SELECT (lines 1042-1057 / 2131-2146): an existing batch is returned
BatchSelect(c) ==
    /\ bpc[c] = "select"
    /\ LET found == SelectBatch(batches, breq[c]) IN
       IF found # {}
       THEN /\ \E id \in found : bres' = [bres EXCEPT ![c] = [id |-> id, err |-> "nil"]]
            /\ bpc' = [bpc EXCEPT ![c] = "idle"]
       ELSE /\ bpc' = [bpc EXCEPT ![c] = "insert"]
            /\ UNCHANGED bres
    /\ UNCHANGED <<storeVars, fetched, saved, breq, sCall, sRet>>
    /\ UNCHANGED nonStoreVars

\* the INSERT (lines 1060-1083 / 2149-2168)
BatchInsert(c) ==
    /\ bpc[c] = "insert"
    /\ LET r == InsertBatch(adapter, batches, NewBatchRow(breq[c], sclock)) IN
       /\ batches' = r.rows
       /\ bres' = [bres EXCEPT ![c] = [id |-> r.id, err |-> r.err]]
    /\ bpc' = [bpc EXCEPT ![c] = "idle"]
    /\ UNCHANGED <<adapter, sclock, events, batchRepos, fetched, saved, breq, sCall, sRet>>
    /\ UNCHANGED nonStoreVars

\* the status calls of the model: repositories of owner "a" in the batches
\* of the organization requests, with the count and error a caller passes
Statuses == {"pending", "processing", "completed", "failed"}
StatusBatches == {req \in BatchRequests : req.mode = "organization"}

\* a caller takes a batch for a window (CreateOrGetBatch)
TakeBatch(req) ==
    /\ batches' = CreateOrGetBatch(adapter, batches, req, sclock).rows
    /\ sCall' = [NoCall EXCEPT !.op = "batch"]
    /\ sRet' = CreateOrGetBatch(adapter, batches, req, sclock).err
    /\ UNCHANGED <<adapter, sclock, events, batchRepos, fetched, saved, bpc, breq, bres>>
    /\ UNCHANGED nonStoreVars

\* UpdateBatchRepositoryStatus(ctx, batchID, "a", repo, status, eventsCount, err)
\* for a batch of the store; it returns nil on every path the model takes
CallUpdateStatus(batchID, repo, status) ==
    /\ batchRepos' = UpdateBatchRepositoryStatus(adapter, batchRepos, batchID, "a", repo,
                        status, IF status = "completed" THEN 3 ELSE 0, "fetch failed")
    /\ sCall' = [op |-> "update", batchID |-> batchID, repo |-> repo, status |-> status]
    /\ sRet' = "nil"
    /\ UNCHANGED <<adapter, sclock, events, batches, fetched, saved, bpc, breq, bres>>
    /\ UNCHANGED nonStoreVars

\* SaveBatchRepository(ctx, &BatchRepository{batchID, "a", repo, status, ...})
CallSaveBatchRepository(batchID, repo, status) ==
    /\ batchRepos' = SaveBatchRepository(batchRepos, <<batchID, "a", repo>>,
                        [status |-> status, eventsCount |-> 0, error |-> ""])
    /\ sCall' = [op |-> "save", batchID |-> batchID, repo |-> repo, status |-> status]
    /\ sRet' = "nil"
    /\ UNCHANGED <<adapter, sclock, events, batches, fetched, saved, bpc, breq, bres>>
    /\ UNCHANGED nonStoreVars

\* GetCompletedReposForBatch(ctx, batchID)
CallGetCompleted(batchID) ==
    /\ sCall' = [NoCall EXCEPT !.op = "completed", !.batchID = batchID]
    /\ sRet' = GetCompletedReposForBatch(batchRepos, batchID)
    /\ UNCHANGED <<storeVars, fetched, saved, bpc, breq, bres>>
    /\ UNCHANGED nonStoreVars

StatusNext ==
    \/ \E req \in StatusBatches : TakeBatch(req)
    \/ \E b \in DOMAIN batches, repo \in RepoNames, st \in Statuses :
          CallUpdateStatus(b, repo, st)
    \/ \E b \in DOMAIN batches, repo \in RepoNames, st \in Statuses :
          CallSaveBatchRepository(b, repo, st)
    \/ \E b \in DOMAIN batches : CallGetCompleted(b)

EventsNext ==
    \/ \E org \in Owners, repo \in RepoNames, item \in UpstreamItems : Fetch(org, repo, item)
    \/ \E evs \in Slices : SaveFetched(evs)

BatchNext ==
    \/ \E c \in Clients, req \in BatchRequests : CallCreateOrGetBatch(c, req)
    \/ \E c \in Clients : BatchSelect(c)
    \/ \E c \in Clients : BatchInsert(c)

-----------------------------------------------------------------------------
(* Collection: CollectOrganizationData / CollectUserData as runCollect calls
   them (variant "plain"), and CollectOrganizationDataWithCallback /
   CollectUserDataWithCallback under a caller that tracks the run in a batch
   (variant "callback").  The organization and the user forms differ only in
   the call that lists the repositories. *)

\* Bounds of the model
NumRepos == 3
MaxFailures == 1

\* make(chan struct{}, 5)
PoolSize == 5

\* one repository more than the semaphore has slots
PoolRepos == PoolSize + 1

Owner == "acme"
CollectWindow == [start |-> 1, end |-> 2]
RepoName(r) == "repo" \o ToString(r)
NoResult == [events |-> {}, err |-> "none"]

\* what the upstream holds for repository r inside the window: one commit,
\* one pull request and one deployment
UpstreamCommits(r) ==
    {[kind |-> "commit", sha |-> "c" \o ToString(r), number |-> 0,
      member |-> "dev", timestamp |-> 1, additions |-> 1, deletions |-> 0]}

UpstreamPullRequests(r) ==
    {[kind |-> "pull_request", sha |-> "", number |-> r, member |-> "dev", timestamp |-> 1,
      additions |-> 0, deletions |-> 0]}

UpstreamDeploys(r) ==
    {[kind |-> "deploy", sha |-> "", number |-> r, member |-> "dev", timestamp |-> 2,
      additions |-> 0, deletions |-> 0]}

\* the events a successful fetch of repository r returns at clock t
GetCommits(org, r, t) == {FetchedEvent(org, RepoName(r), i, t) : i \in UpstreamCommits(r)}

GetPullRequests(org, r, t) ==
    {FetchedEvent(org, RepoName(r), i, t) : i \in UpstreamPullRequests(r)}

GetDeploys(org, r, t) == {FetchedEvent(org, RepoName(r), i, t) : i \in UpstreamDeploys(r)}

Fetched(org, r, fetch, t) ==
    CASE fetch = "commits" -> GetCommits(org, r, t)
      [] fetch = "prs" -> GetPullRequests(org, r, t)
      [] OTHER -> GetDeploys(org, r, t)

\* event.OwnerType = "user" of the user forms (lines 1180, 1195, 1210)
AsOwnerType(e, mode) == IF mode = "user" THEN [e EXCEPT !.ownerType = "user"] ELSE e

\* the events behind a set of appended fetch results
EventsOf(results, t) ==
    {AsOwnerType(e, cmode) : e \in UNION {Fetched(Owner, x[1], x[2], t) : x \in results}}

\* repoEvents of a worker of the callback form once its three fetches succeeded
RepoEvents(r, t) == EventsOf({<<r, "commits">>, <<r, "prs">>, <<r, "deploys">>}, t)

\* lines 998 / 1081: float64(index+1)/float64(len(repos)), the fraction the
\* worker of repository r passes to onProgress; r is at index r - 1 of repos
ProgressOf(r) == [num |-> (r - 1) + 1, den |-> Cardinality(repos)]

\* a semaphore that admits every sender
SemaphoreFull_Unbounded(n) == FALSE

\* semaphore <- struct{}{} blocks while the channel holds 5
SemaphoreFull(n) == n >= PoolSize

\* a collect call that gives up when errCh holds an error
CollectResult_FailFast(evs, errs) ==
    IF errs # {} THEN [events |-> {}, err |-> "failed"] ELSE [events |-> evs, err |-> "nil"]

\* lines 1006-1014: the errors are printed, the call returns allEvents, nil
CollectResult(evs, errs) == [events |-> evs, err |-> "nil"]

\* the batch the tracking caller asks for
BatchRequest ==
    [id |-> NoBatch, mode |-> cmode, owner |-> Owner,
     start |-> CollectWindow.start, end |-> CollectWindow.end, status |-> "in_progress"]

\* the status the tracking caller gives the batch when the call is over
BatchOutcome(brs, batchID) ==
    IF \E k \in DOMAIN brs : k[1] = batchID /\ brs[k].status = "failed"
    THEN "failed" ELSE "completed"

\* a command not yet started, to be run runs times over the repositories rs
CollectInit(rs, runs) ==
    /\ variant \in {"plain", "callback"}
    /\ cmode \in {"organization", "user"}
    /\ repos = rs
    /\ cpc = "idle"
    /\ run = 0
    /\ lastRun = runs
    /\ curBatch = NoBatch
    /\ wpc = [r \in rs |-> "idle"]
    /\ semaphore = 0
    /\ allEvents = {}
    /\ errCh = {}
    /\ collectRes = NoResult
    /\ cmdErr = "none"

\* the collection while no collect command is part of the run
CollectIdle ==
    /\ variant = "plain"
    /\ cmode = "organization"
    /\ repos = {}
    /\ cpc = "idle"
    /\ run = 0
    /\ lastRun = 0
    /\ curBatch = NoBatch
    /\ wpc = EmptyTable
    /\ semaphore = 0
    /\ allEvents = {}
    /\ errCh = {}
    /\ collectRes = NoResult
    /\ cmdErr = "none"

\* the tracking caller opens its batch, or gets the one the window has
OpenBatch ==
    LET b == CreateOrGetBatch(adapter, batches, BatchRequest, sclock) IN
    /\ batches' = b.rows
    /\ curBatch' = b.id

\* the onRepoComplete the tracking caller passes: it saves the repository's
\* events and marks the repository completed with its event count
RepoCompleted(r) ==
    /\ events' = SaveRawEvents(adapter, events, SliceOf(RepoEvents(r, sclock)))
    /\ batchRepos' = UpdateBatchRepositoryStatus(adapter, batchRepos, curBatch, Owner,
                        RepoName(r), "completed", Cardinality(RepoEvents(r, sclock)), "")

\* the tracking caller sets the batch's status once the call is over
CloseBatch ==
    batches' = UpdateBatchStatus(batches, curBatch, BatchOutcome(batchRepos, curBatch))

\* the command starts: the tracking caller opens or reuses its batch; the
\* collect call lists the repositories and starts one goroutine for each of
\* them (lines 936-951 / 1020-1033)
StartCollect ==
    /\ cpc = "idle"
    /\ run < lastRun
    /\ run' = run + 1
    /\ cpc' = "running"
    /\ wpc' = [r \in repos |-> "queued"]
    /\ semaphore' = 0
    /\ allEvents' = {}
    /\ errCh' = {}
    /\ collectRes' = NoResult
    /\ cmdErr' = "none"
    /\ IF variant = "callback" THEN OpenBatch ELSE UNCHANGED <<batches, curBatch>>
    /\ UNCHANGED <<adapter, sclock, events, batchRepos, variant, cmode, repos, lastRun>>
    /\ UNCHANGED nonCollectVars

\* line 954 / 1036: semaphore <- struct{}{}, then the first fetch starts
Acquire(r) ==
    /\ cpc = "running"
    /\ wpc[r] = "queued"
    /\ ~SemaphoreFull(semaphore)
    /\ semaphore' = semaphore + 1
    /\ wpc' = [wpc EXCEPT ![r] = "commits"]
    /\ UNCHANGED <<storeVars, variant, cmode, repos, cpc, run, lastRun, curBatch,
                   allEvents, errCh, collectRes, cmdErr>>
    /\ UNCHANGED nonCollectVars

\* a fetch of worker r returns.  On an error the worker sends it to errCh and
\* returns, which runs the deferred release of its slot; otherwise the plain
\* form appends the result to allEvents under mu and the worker goes on to
\* next.  After the last fetch the plain form reports progress and returns.
FetchReturns(r, fetch, next) ==
    /\ cpc = "running"
    /\ wpc[r] = fetch
    /\ \E failed \in BOOLEAN :
         /\ failed => Cardinality(errCh) < MaxFailures
         /\ IF failed
            THEN /\ errCh' = errCh \cup {<<r, fetch>>}
                 /\ wpc' = [wpc EXCEPT ![r] = "failed"]
                 /\ semaphore' = semaphore - 1
                 /\ UNCHANGED allEvents
            ELSE /\ allEvents' = IF variant = "plain"
                                 THEN allEvents \cup {<<r, fetch>>} ELSE allEvents
                 /\ wpc' = [wpc EXCEPT ![r] =
                               IF next = "saving" /\ variant = "plain" THEN "done" ELSE next]
                 /\ semaphore' = IF next = "saving" /\ variant = "plain"
                                 THEN semaphore - 1 ELSE semaphore
                 /\ UNCHANGED errCh
    /\ UNCHANGED <<storeVars, variant, cmode, repos, cpc, run, lastRun, curBatch,
                   collectRes, cmdErr>>
    /\ UNCHANGED nonCollectVars

\* lines 958-968 / 1042-1049
FetchCommits(r) == FetchReturns(r, "commits", "prs")

\* lines 971-981 / 1052-1059
FetchPullRequests(r) == FetchReturns(r, "prs", "deploys")

\* lines 984-999 / 1062-1069
FetchDeploys(r) == FetchReturns(r, "deploys", "saving")

\* lines 1072-1082: onRepoComplete(r.Name, repoEvents).  When the store
\* fails it returns the error, which the worker sends to errCh before it
\* returns; otherwise the worker reports progress and returns.
OnRepoComplete(r) ==
    /\ cpc = "running"
    /\ wpc[r] = "saving"
    /\ \E failed \in BOOLEAN :
         /\ failed => Cardinality(errCh) < MaxFailures
         /\ IF failed
            THEN /\ errCh' = errCh \cup {<<r, "save">>}
                 /\ wpc' = [wpc EXCEPT ![r] = "failed"]
                 /\ UNCHANGED <<events, batchRepos>>
            ELSE /\ RepoCompleted(r)
                 /\ wpc' = [wpc EXCEPT ![r] = "done"]
                 /\ UNCHANGED errCh
    /\ semaphore' = semaphore - 1
    /\ UNCHANGED <<adapter, sclock, batches, variant, cmode, repos, cpc, run, lastRun,
                   curBatch, allEvents, collectRes, cmdErr>>
    /\ UNCHANGED nonCollectVars

\* lines 1003-1014 / 1086-1097: wg.Wait(), the warnings, the return
CollectReturn ==
    /\ cpc = "running"
    /\ \A r \in repos : wpc[r] \in {"done", "failed"}
    /\ cpc' = "returned"
    /\ collectRes' = CollectResult(EventsOf(allEvents, sclock), errCh)
    /\ UNCHANGED <<storeVars, variant, cmode, repos, run, lastRun, curBatch, wpc,
                   semaphore, allEvents, errCh, cmdErr>>
    /\ UNCHANGED nonCollectVars

\* the command ends.  runCollect (lines 245-259) returns the call's error, or
\* saves the returned events and returns the error of SaveRawEvents, whose
\* transaction leaves no row when it fails; the tracking caller sets the
\* batch's status.
EndCollect ==
    /\ cpc = "returned"
    /\ cpc' = "idle"
    /\ IF variant = "plain"
       THEN /\ UNCHANGED batches
            /\ IF collectRes.err # "nil"
               THEN cmdErr' = "failed to collect data" /\ UNCHANGED events
               ELSE \E failed \in BOOLEAN :
                       /\ failed => Cardinality(errCh) < MaxFailures
                       /\ IF failed
                          THEN cmdErr' = "failed to save events" /\ UNCHANGED events
                          ELSE /\ cmdErr' = "nil"
                               /\ events' = SaveRawEvents(adapter, events,
                                                          SliceOf(collectRes.events))
       ELSE /\ CloseBatch
            /\ cmdErr' = collectRes.err
            /\ UNCHANGED events
    /\ UNCHANGED <<adapter, sclock, batchRepos, variant, cmode, repos, run, lastRun,
                   curBatch, wpc, semaphore, allEvents, errCh, collectRes>>
    /\ UNCHANGED nonCollectVars

\* a Wait that hears of the cancellation only when its timer has fired
WaitReturns_DeafToCancel(done) == ~(LowBudget(remaining) /\ WaitDuration(resetTime, now) > 0)

\* part_010 lines 41-52: Wait comes back at once with ctx.Err() when the
\* context is cancelled, and otherwise unless the budget is low before the
\* reset time
WaitReturns(done) == done \/ ~(LowBudget(remaining) /\ WaitDuration(resetTime, now) > 0)

\* one fetch of worker r under the limiter: the Wait of GetCommits /
\* GetPullRequests / GetDeploys, the upstream request and its response, whose
\* rate (rem, reset) goes to UpdateLimit.  Under a cancelled context the Wait
\* or the request returns the context's error.  The worker then goes on as in
\* lines 958-999.
GovernedFetch(r, fetch, next, rem, reset) ==
    /\ cpc = "running"
    /\ wpc[r] = fetch
    /\ WaitReturns(ctxDone)
    /\ IF ctxDone
       THEN /\ errCh' = errCh \cup {<<r, fetch>>}
            /\ wpc' = [wpc EXCEPT ![r] = "failed"]
            /\ semaphore' = semaphore - 1
            /\ UNCHANGED <<allEvents, updates, remaining, resetTime>>
       ELSE /\ updates < MaxUpdates
            /\ updates' = updates + 1
            /\ updateRateLimitFromResponse(rem, reset)
            /\ allEvents' = allEvents \cup {<<r, fetch>>}
            /\ wpc' = [wpc EXCEPT ![r] = IF next = "saving" THEN "done" ELSE next]
            /\ semaphore' = IF next = "saving" THEN semaphore - 1 ELSE semaphore
            /\ UNCHANGED errCh
    /\ UNCHANGED <<now, ticks, calls, ctxDone, mu, lastCall, lpc, deadline, wake,
                   lastRes, lowSeen, waitedCancel>>
    /\ UNCHANGED <<storeVars, variant, cmode, repos, cpc, run, lastRun, curBatch,
                   collectRes, cmdErr>>
    /\ UNCHANGED <<clientVars, seriesVars, metricsVars, fetchVars>>

\* the rates a response can report
Rates == {<<None, ZeroTime>>, <<Threshold, now + Hour>>}

\* the steps of the workers
WorkerStep(r) ==
    \/ Acquire(r)
    \/ \E rate \in Rates : GovernedFetch(r, "commits", "prs", rate[1], rate[2])
    \/ \E rate \in Rates : GovernedFetch(r, "prs", "deploys", rate[1], rate[2])
    \/ \E rate \in Rates : GovernedFetch(r, "deploys", "saving", rate[1], rate[2])

UnwindNext ==
    \/ StartCollect
    \/ \E r \in repos : WorkerStep(r)
    \/ CollectReturn
    \/ EndCollect
    \/ Cancel
    \/ \E t \in NextTimes : Tick(t)

CollectNext ==
    \/ StartCollect
    \/ \E r \in repos : Acquire(r)
    \/ \E r \in repos : FetchCommits(r)
    \/ \E r \in repos : FetchPullRequests(r)
    \/ \E r \in repos : FetchDeploys(r)
    \/ \E r \in repos : OnRepoComplete(r)
    \/ CollectReturn
    \/ EndCollect

-----------------------------------------------------------------------------
(* The fetchers: GetRepositories, GetCommits, GetPullRequests and GetDeploys.
   One call is followed from its first Wait to its return.  The upstream
   lists its items in pages; it answers a call with the page or with an
   error status; Wait returns nil or an error. *)

\* Bounds of the model
MaxItems == 3
PageSize == 2
MaxRetries == 1

\* creation times around the window since..until
FetchTimes == 0..3
FetchWindow == [since |-> 1, until |-> 2]

Fetchers == {"repos", "commits", "prs", "deploys"}

\* the listings of the upstream: items with keys 1, 2, ... in listing order,
\* newest first (Sort "created", Direction "desc" of lines 742-743)
Listings ==
    UNION {{l \in [1..n -> [key : 1..n, createdAt : FetchTimes]] :
               /\ \A i \in 1..n : l[i].key = i
               /\ \A i \in 1..(n - 1) : l[i].createdAt >= l[i + 1].createdAt}
           : n \in 0..MaxItems}

\* the page p of a listing
Page(list, p) ==
    SubSeq(list, (p - 1) * PageSize + 1,
           IF p * PageSize < Len(list) THEN p * PageSize ELSE Len(list))

\* resp.NextPage: 0 on the last page
NextPage(list, p) == IF p * PageSize < Len(list) THEN p + 1 ELSE 0

\* createdAt.Before(since) and createdAt.After(until)
Before(t, u) == t < u

\* a window that leaves out its end
After_OrEqual(t, u) == t >= u

After(t, u) == t > u

\* a follow-up call made without a Wait of its own
DetailPosition_NoWait == "detail"

\* lines 686-690 / 838-842: the Wait that precedes the follow-up call
DetailPosition == "dwait"

\* an error answer the fetcher has no case for: anything but the 409 to
\* ListCommits (line 665) and the 404 to ListDeployments (line 823)
OtherError(kind, call, status) ==
    /\ status # "200"
    /\ ~(kind = "commits" /\ call = "list" /\ status = "409")
    /\ ~(kind = "deploys" /\ call = "list" /\ status = "404")

NoReturnYet == [items |-> <<>>, err |-> "none"]

\* no fetcher call is part of the run
FetchIdle ==
    /\ fkind = "none"
    /\ upstream = <<>>
    /\ fpc = "returned"
    /\ fpage = 0
    /\ fitem = 0
    /\ acc = <<>>
    /\ fret = NoReturnYet
    /\ lastWait = "none"
    /\ fstatus = "none"
    /\ sawError = FALSE
    /\ fretries = 0

\* a fetcher is called: nothing collected yet, the first page to list
FetchInit ==
    /\ fkind \in Fetchers
    /\ upstream \in Listings
    /\ fpc = "entry"
    /\ fpage = 1
    /\ fitem = 0
    /\ acc = <<>>
    /\ fret = NoReturnYet
    /\ lastWait = "none"
    /\ fstatus = "none"
    /\ sawError = FALSE
    /\ fretries = 0

\* return items, err
FReturn(items, err) ==
    /\ fpc' = "returned"
    /\ fret' = [items |-> items, err |-> err]

\* c.rateLimiter.Wait(ctx) at the entry (576, 650, 735, 810), before a page
\* (590, 725, 800, 881) or before a follow-up call (686, 838); an error is
\* returned with no items
FWait(res) ==
    /\ fpc \in {"entry", "wait", "dwait"}
    /\ lastWait' = res
    /\ IF res = "err"
       THEN FReturn(<<>>, "err")
       ELSE /\ fpc' = CASE fpc = "entry" -> IF fkind = "repos" THEN "wait" ELSE "list"
                        [] fpc = "wait" -> "list"
                        [] OTHER -> "detail"
            /\ UNCHANGED fret
    /\ UNCHANGED <<fkind, upstream, fpage, fitem, acc, fstatus, sawError, fretries>>
    /\ UNCHANGED nonFetchVars

\* the list call of the page (595, 662, 748, 820) and what the fetcher does
\* with an error answer: GetCommits returns allCommits, nil on 409,
\* GetDeploys returns allDeploys, nil on 404, GetRepositories waits for the
\* reported reset and lists again or gives up on 403, every other error is
\* returned
FList(status) ==
    /\ fpc = "list"
    /\ lastWait' = "none"
    /\ fstatus' = status
    /\ sawError' = (sawError \/ OtherError(fkind, "list", status))
    /\ CASE status = "200" ->
              /\ fpc' = "items"
              /\ fitem' = 1
              /\ UNCHANGED <<fret, fretries>>
         [] status = "409" /\ fkind = "commits" ->
              /\ FReturn(acc, "nil")
              /\ UNCHANGED <<fitem, fretries>>
         [] status = "404" /\ fkind = "deploys" ->
              /\ FReturn(acc, "nil")
              /\ UNCHANGED <<fitem, fretries>>
         [] status = "403" /\ fkind = "repos" ->
              \E retry \in BOOLEAN :
                 /\ retry => fretries < MaxRetries
                 /\ IF retry
                    THEN /\ fpc' = "wait"
                         /\ fretries' = fretries + 1
                         /\ UNCHANGED <<fret, fitem>>
                    ELSE /\ FReturn(<<>>, "err")
                         /\ UNCHANGED <<fitem, fretries>>
         [] OTHER ->
              /\ FReturn(<<>>, "err")
              /\ UNCHANGED <<fitem, fretries>>
    /\ UNCHANGED <<fkind, upstream, fpage, acc>>
    /\ UNCHANGED nonFetchVars

\* one round of the range loop over the page, or the end of the page
\* (639-642, 720-723, 795-798, 876-879).  GetPullRequests returns at an item
\* created before since and skips one created after until (757-763);
\* GetDeploys skips both (833-835); GetCommits and GetDeploys go on to the
\* follow-up call of the item.
FItem ==
    /\ fpc = "items"
    /\ IF fitem > Len(Page(upstream, fpage))
       THEN IF NextPage(upstream, fpage) = 0
            THEN /\ FReturn(acc, "nil")
                 /\ UNCHANGED <<fpage, fitem, acc>>
            ELSE /\ fpage' = NextPage(upstream, fpage)
                 /\ fpc' = "wait"
                 /\ UNCHANGED <<fitem, acc, fret>>
       ELSE LET it == Page(upstream, fpage)[fitem]
                early == Before(it.createdAt, FetchWindow.since)
                late  == After(it.createdAt, FetchWindow.until)
            IN CASE fkind = "repos" ->
                      /\ acc' = Append(acc, it)
                      /\ fitem' = fitem + 1
                      /\ UNCHANGED <<fpc, fpage, fret>>
                 [] fkind = "commits" ->
                      /\ fpc' = DetailPosition
                      /\ UNCHANGED <<fpage, fitem, acc, fret>>
                 [] fkind = "prs" /\ early ->
                      /\ FReturn(acc, "nil")
                      /\ UNCHANGED <<fpage, fitem, acc>>
                 [] fkind = "prs" /\ ~early ->
                      /\ acc' = IF late THEN acc ELSE Append(acc, it)
                      /\ fitem' = fitem + 1
                      /\ UNCHANGED <<fpc, fpage, fret>>
                 [] fkind = "deploys" /\ (early \/ late) ->
                      /\ fitem' = fitem + 1
                      /\ UNCHANGED <<fpc, fpage, acc, fret>>
                 [] OTHER ->
                      /\ fpc' = DetailPosition
                      /\ UNCHANGED <<fpage, fitem, acc, fret>>
    /\ UNCHANGED <<fkind, upstream, lastWait, fstatus, sawError, fretries>>
    /\ UNCHANGED nonFetchVars

\* the follow-up call of the item: GetCommit (690-717), whose error leaves
\* the commit with zero additions and deletions, and ListDeploymentStatuses
\* (842-873), whose error skips the deployment
FDetail(status) ==
    /\ fpc = "detail"
    /\ lastWait' = "none"
    /\ fstatus' = status
    /\ sawError' = (sawError \/ OtherError(fkind, "detail", status))
    /\ acc' = IF fkind = "commits" \/ status = "200"
              THEN Append(acc, Page(upstream, fpage)[fitem]) ELSE acc
    /\ fitem' = fitem + 1
    /\ fpc' = "items"
    /\ UNCHANGED <<fkind, upstream, fpage, fret, fretries>>
    /\ UNCHANGED nonFetchVars

FetchNext ==
    \/ \E res \in {"ok", "err"} : FWait(res)
    \/ \E status \in {"200", "403", "404", "409", "500"} : FList(status)
    \/ FItem
    \/ \E status \in {"200", "404", "500"} : FDetail(status)

-----------------------------------------------------------------------------
(* Time series: getTimeSeries and fillTimeSeriesGaps of the storage adapters
   (the same text in both) and GetTimeSeriesMetrics of the aggregator.  Time
   is counted in ticks of a small calendar whose months differ in length. *)

\* Bound of the model
MaxEvents == 2

Calendar == [ticksPerDay |-> 2, monthDays |-> <<2, 3, 2>>]

NumMonths == Len(Calendar.monthDays)

\* the days of the calendar before month m
RECURSIVE DaysBefore(_)
DaysBefore(m) == IF m <= 1 THEN 0 ELSE DaysBefore(m - 1) + Calendar.monthDays[m - 1]

Instants == 0 .. (DaysBefore(NumMonths + 1) * Calendar.ticksPerDay - 1)

\* t.Month(), t.Day() and the time of day of an instant
MonthOf(t) ==
    CHOOSE m \in 1..NumMonths :
        /\ DaysBefore(m) * Calendar.ticksPerDay <= t
        /\ t < DaysBefore(m + 1) * Calendar.ticksPerDay

DayOfMonth(t) == (t \div Calendar.ticksPerDay) - DaysBefore(MonthOf(t)) + 1

TickOfDay(t) == t % Calendar.ticksPerDay

\* time.Date(year, month, day, tick): a day past the month's end runs on into
\* the next month, as time.Date normalises
Date(month, day, tick) == (DaysBefore(month) + day - 1) * Calendar.ticksPerDay + tick

\* truncateTimeForGranularity (adapters) and truncateTime (aggregator), for the
\* granularities day and month
truncateTimeForGranularity(t, granularity) ==
    CASE granularity = "month" -> Date(MonthOf(t), 1, 0)
      [] OTHER -> Date(MonthOf(t), DayOfMonth(t), 0)

truncateTime(t, granularity) ==
    CASE granularity = "month" -> Date(MonthOf(t), 1, 0)
      [] OTHER -> Date(MonthOf(t), DayOfMonth(t), 0)

\* getNextPeriodForGranularity / getNextPeriod: t.AddDate(0, 1, 0) or
\* t.AddDate(0, 0, 1)
getNextPeriodForGranularity(t, granularity) ==
    CASE granularity = "month" -> Date(MonthOf(t) + 1, DayOfMonth(t), TickOfDay(t))
      [] OTHER -> Date(MonthOf(t), DayOfMonth(t) + 1, TickOfDay(t))

getNextPeriod(t, granularity) ==
    CASE granularity = "month" -> Date(MonthOf(t) + 1, DayOfMonth(t), TickOfDay(t))
      [] OTHER -> Date(MonthOf(t), DayOfMonth(t) + 1, TickOfDay(t))

\* DATE_TRUNC($1, timestamp) / date(timestamp) / strftime('%Y-%m', ...) || '-01'
DateTrunc(t, granularity) ==
    IF granularity = "month" THEN Date(MonthOf(t), 1, 0)
    ELSE t - TickOfDay(t)

\* a set of instants in ascending order
RECURSIVE Ascending(_)
Ascending(S) ==
    IF S = {} THEN <<>>
    ELSE LET m == CHOOSE x \in S : \A y \in S : x <= y IN <<m>> \o Ascending(S \ {m})

\* the rows of the events table in the range: WHERE owner = ? AND
\* timestamp >= ? AND timestamp <= ?
RowsInRange(rows, org, timeRange) ==
    {id \in DOMAIN rows :
        /\ rows[id].owner = org
        /\ rows[id].timestamp >= timeRange.start
        /\ rows[id].timestamp <= timeRange.end}

\* the query of getTimeSeries: one data point per period that has rows,
\* GROUP BY period ORDER BY period
SelectPeriods(rows, org, timeRange) ==
    LET sel == RowsInRange(rows, org, timeRange)
        periodOf(id) == DateTrunc(rows[id].timestamp, timeRange.granularity)
        count(p, type) == Cardinality({id \in sel : periodOf(id) = p /\ rows[id].type = type})
        periods == Ascending({periodOf(id) : id \in sel})
    IN [i \in DOMAIN periods |->
           [timestamp |-> periods[i],
            commits   |-> count(periods[i], "commit"),
            prs       |-> count(periods[i], "pull_request"),
            deploys   |-> count(periods[i], "deploy")]]

\* the loop of fillTimeSeriesGaps (lines 1312-1326)
RECURSIVE FillLoop(_, _, _, _, _)
FillLoop(current, end, dataPoints, granularity, filled) ==
    IF current > end THEN filled
    ELSE LET hits == {i \in DOMAIN dataPoints :
                         truncateTimeForGranularity(dataPoints[i].timestamp, granularity)
                            = current}
             dp == IF hits # {}
                   THEN dataPoints[CHOOSE i \in hits : \A j \in hits : j <= i]
                   ELSE [timestamp |-> current, commits |-> 0, prs |-> 0, deploys |-> 0]
         IN FillLoop(getNextPeriodForGranularity(current, granularity), end, dataPoints,
                     granularity, Append(filled, dp))

\* a gap filling that writes a zero bucket over every period
fillTimeSeriesGaps_AllZero(dataPoints, timeRange) ==
    IF Len(dataPoints) = 0 THEN dataPoints
    ELSE FillLoop(truncateTimeForGranularity(timeRange.start, timeRange.granularity),
                  truncateTimeForGranularity(timeRange.end, timeRange.granularity),
                  <<>>, timeRange.granularity, <<>>)

\* fillTimeSeriesGaps
fillTimeSeriesGaps(dataPoints, timeRange) ==
    IF Len(dataPoints) = 0 THEN dataPoints
    ELSE FillLoop(truncateTimeForGranularity(timeRange.start, timeRange.granularity),
                  truncateTimeForGranularity(timeRange.end, timeRange.granularity),
                  dataPoints, timeRange.granularity, <<>>)

\* getTimeSeries
getTimeSeries(rows, org, timeRange) ==
    fillTimeSeriesGaps(SelectPeriods(rows, org, timeRange), timeRange)

\* the event type GetTimeSeriesMetrics reads for a metric type (lines 72-82)
EventTypeOf(metricType) ==
    CASE metricType = "pull_request" -> "pull_request"
      [] metricType = "deploy" -> "deploy"
      [] OTHER -> "commit"

\* GetEvents: WHERE owner = ? AND type = ? AND timestamp >= ? AND timestamp <= ?
GetEvents(rows, org, eventType, timeRange) ==
    {id \in RowsInRange(rows, org, timeRange) : rows[id].type = eventType}

\* the loop of GetTimeSeriesMetrics (lines 98-106)
RECURSIVE MetricsLoop(_, _, _, _, _)
MetricsLoop(current, timeRange, rows, evs, dataPoints) ==
    IF current > timeRange.end THEN dataPoints
    ELSE LET count == Cardinality({id \in evs :
                         truncateTime(rows[id].timestamp, timeRange.granularity) = current})
         IN MetricsLoop(getNextPeriod(current, timeRange.granularity), timeRange, rows, evs,
                        Append(dataPoints, [timestamp |-> current, value |-> count]))

\* GetTimeSeriesMetrics
GetTimeSeriesMetrics(rows, org, metricType, timeRange) ==
    MetricsLoop(truncateTime(timeRange.start, timeRange.granularity), timeRange, rows,
                GetEvents(rows, org, EventTypeOf(metricType), timeRange), <<>>)

\* the moments the stored events carry: the later tick of each day
EventTimes == {t \in Instants : TickOfDay(t) = Calendar.ticksPerDay - 1}

\* the event of the model stored for an instant and a type
StoredEvent(type, t) ==
    FetchedEvent("a", "c",
                 [kind |-> type, sha |-> IF type = "commit" THEN "s" \o ToString(t) ELSE "",
                  number |-> IF type = "commit" THEN 0 ELSE t,
                  member |-> "dev", timestamp |-> t, additions |-> 0, deletions |-> 0],
                 sclock)

\* no time-series request yet
SeriesIdle ==
    /\ tsQuery = [path |-> "none", metricType |-> "", start |-> 0, end |-> 0,
                  granularity |-> "day"]
    /\ tsResult = <<>>

\* an event reaches the store, between two requests
Ingest(type, t) ==
    /\ tsQuery.path = "none"
    /\ Cardinality(DOMAIN events) < MaxEvents
    /\ StoredEvent(type, t).id \notin DOMAIN events
    /\ events' = SaveRawEvents(adapter, events, <<StoredEvent(type, t)>>)
    /\ UNCHANGED <<adapter, sclock, batches, batchRepos, seriesVars>>
    /\ UNCHANGED nonSeriesVars

\* GetOrgTimeSeries of the adapter in use
QueryStorage(start, end, granularity) ==
    /\ tsQuery.path = "none"
    /\ tsQuery' = [path |-> "storage", metricType |-> "", start |-> start, end |-> end,
                   granularity |-> granularity]
    /\ tsResult' = getTimeSeries(events, "a",
                      [start |-> start, end |-> end, granularity |-> granularity])
    /\ UNCHANGED storeVars
    /\ UNCHANGED nonSeriesVars

\* GetTimeSeriesMetrics of the aggregator
QueryAggregator(metricType, start, end, granularity) ==
    /\ tsQuery.path = "none"
    /\ tsQuery' = [path |-> "aggregator", metricType |-> metricType, start |-> start,
                   end |-> end, granularity |-> granularity]
    /\ tsResult' = GetTimeSeriesMetrics(events, "a", metricType,
                      [start |-> start, end |-> end, granularity |-> granularity])
    /\ UNCHANGED storeVars
    /\ UNCHANGED nonSeriesVars

\* the series has gone to the requester; the next request may come
Respond ==
    /\ tsQuery.path # "none"
    /\ tsQuery' = [path |-> "none", metricType |-> "", start |-> 0, end |-> 0,
                   granularity |-> "day"]
    /\ tsResult' = <<>>
    /\ UNCHANGED storeVars
    /\ UNCHANGED nonSeriesVars

SeriesNext ==
    \/ \E type \in {"commit", "pull_request"}, t \in EventTimes : Ingest(type, t)
    \/ \E start \in Instants, end \in Instants, g \in {"day", "month"} :
          start <= end /\ QueryStorage(start, end, g)
    \/ \E m \in {"commit", "pull_request"}, start \in Instants, end \in Instants,
          g \in {"day", "month"} :
          start <= end /\ QueryAggregator(m, start, end, g)
    \/ Respond

-----------------------------------------------------------------------------
(* Rollups and rankings of the storage adapters: GetMetricsByOrg,
   GetMembersWithMetrics, GetReposWithMetrics, GetMemberRanking and
   GetRepoRanking.  Every statement reads the rows of the owner whose
   timestamp lies in the window. *)

\* limit = 10 of the rankings when the caller passes none
DefaultLimit == 10

\* the members and repositories of the model, in the order of ORDER BY
MemberNames == <<"ann", "bob">>
MetricRepos == <<"b-c", "c">>

RankingTypes == {"commits", "prs", "code-changes", "deploys"}

\* the window of the metrics requests; instant 3 lies outside it
MetricsWindow == [start |-> 1, end |-> 2]

\* SUM(field) over a set of rows
RECURSIVE SumField(_, _, _)
SumField(rows, ids, field) ==
    IF ids = {} THEN 0
    ELSE LET x == CHOOSE y \in ids : TRUE
         IN rows[x][field] + SumField(rows, ids \ {x}, field)

\* SELECT COUNT(*), ..., COALESCE(SUM(additions), 0), COALESCE(SUM(deletions), 0)
\* over a set of rows
Counters(rows, ids) ==
    LET commitIds == {id \in ids : rows[id].type = "commit"} IN
    [commits   |-> Cardinality(commitIds),
        prs       |-> Cardinality({id \in ids : rows[id].type = "pull_request"}),
        deploys   |-> Cardinality({id \in ids : rows[id].type = "deploy"}),
        additions |-> SumField(rows, commitIds, "additions"),
        deletions |-> SumField(rows, commitIds, "deletions")]

\* GetMetricsByOrg: the counters of the owner over the window
GetMetricsByOrg(rows, org, timeRange) ==
    Counters(rows, RowsInRange(rows, org, timeRange))

\* a per-member rollup that forgets the window
GetMetricsByMember_AnyTime(rows, org, member, timeRange) ==
    [member |-> member] @@
    Counters(rows, {id \in DOMAIN rows : rows[id].owner = org /\ rows[id].member = member})

\* GetMetricsByMember: ... AND member = $2 ...
GetMetricsByMember(rows, org, member, timeRange) ==
    [member |-> member] @@
    Counters(rows, {id \in RowsInRange(rows, org, timeRange) : rows[id].member = member})

\* GetMetricsByRepo: ... AND repo = $2 ...
GetMetricsByRepo(rows, org, repo, timeRange) ==
    [repo |-> repo] @@
    Counters(rows, {id \in RowsInRange(rows, org, timeRange) : rows[id].repo = repo})

\* GetMembersWithMetrics: SELECT DISTINCT member ... ORDER BY member, then
\* GetMetricsByMember for each
GetMembersWithMetrics(rows, org, timeRange) ==
    LET present(m) == \E id \in RowsInRange(rows, org, timeRange) : rows[id].member = m
        memberNames == SelectSeq(MemberNames, present)
    IN [i \in DOMAIN memberNames |-> GetMetricsByMember(rows, org, memberNames[i], timeRange)]

\* GetReposWithMetrics: SELECT DISTINCT repo ... ORDER BY repo, then
\* GetMetricsByRepo for each
GetReposWithMetrics(rows, org, timeRange) ==
    LET present(r) == \E id \in RowsInRange(rows, org, timeRange) : rows[id].repo = r
        repoNames == SelectSeq(MetricRepos, present)
    IN [i \in DOMAIN repoNames |-> GetMetricsByRepo(rows, org, repoNames[i], timeRange)]

\* a limit taken as it comes
EffectiveLimit_AsGiven(limit) == limit

\* if limit <= 0 { limit = 10 }
EffectiveLimit(limit) == IF limit <= 0 THEN DefaultLimit ELSE limit

\* the second column of the ranking statements, the one ORDER BY names: the
\* postgres statements for commits read COUNT(*), every other statement sums
\* over the rows of the type
RankingValue(ad, rankingType, rows, ids) ==
    LET c == Counters(rows, ids) IN
    CASE rankingType = "commits" -> IF ad = "postgres" THEN Cardinality(ids) ELSE c.commits
      [] rankingType = "prs" -> c.prs
      [] rankingType = "code-changes" -> c.additions + c.deletions
      [] OTHER -> c.deploys

\* the rows of a ranking statement before ORDER BY: one for each subject
\* (member or repo) with a row of the owner in the window
RankingGroups(ad, rows, org, by, rankingType, timeRange) ==
    LET sel == RowsInRange(rows, org, timeRange)
        subjects == {rows[id][by] : id \in sel}
        group(x) == {id \in sel : rows[id][by] = x}
    IN [x \in subjects |->
           [subject |-> x, value |-> RankingValue(ad, rankingType, rows, group(x))] @@
           Counters(rows, group(x))]

\* ORDER BY value DESC LIMIT n: the row sequences the statement may return;
\* the order among equal values is the database's choice
OrderByDescLimit(groups, n) ==
    LET len == IF Cardinality(DOMAIN groups) < n THEN Cardinality(DOMAIN groups) ELSE n IN
    {order \in [1..len -> DOMAIN groups] :
        /\ \A i, j \in 1..len : i < j =>
              /\ order[i] # order[j]
              /\ groups[order[i]].value >= groups[order[j]].value
        /\ \A x \in DOMAIN groups :
              (\A i \in 1..len : order[i] # x) =>
                 \A i \in 1..len : groups[order[i]].value >= groups[x].value}

\* the loop over the returned rows (lines 902-933): rank counts from 1
Rankings(groups, order) ==
    [i \in DOMAIN order |-> [rank |-> i] @@ groups[order[i]]]

\* the events of the model: of owner "a", by either member in either
\* repository, of each type, inside and outside the window, and one commit
\* of another owner
MetricItems ==
    {[kind |-> k, sha |-> IF k = "commit" THEN MemberNames[m] \o ToString(t) ELSE "",
      number |-> IF k = "commit" THEN 0 ELSE 10 * t + m,
      member |-> MemberNames[m], timestamp |-> t,
      additions |-> IF k = "commit" THEN m ELSE 0,
      deletions |-> IF k = "commit" THEN t ELSE 0] :
        k \in {"commit", "pull_request", "deploy"}, m \in DOMAIN MemberNames, t \in {1, 3}}

MetricEvents ==
    {FetchedEvent("a", MetricRepos[r], item, sclock) :
        r \in DOMAIN MetricRepos, item \in MetricItems}
    \cup {FetchedEvent("a-b", "c", item, sclock) :
            item \in {i \in MetricItems : i.kind = "commit" /\ i.member = "ann"
                                          /\ i.timestamp = 1}}

NoMetricsQuery == [kind |-> "none", rankingType |-> "", limit |-> 0]

\* no metrics request yet
MetricsIdle ==
    /\ mQuery = NoMetricsQuery
    /\ mResult = <<>>

\* an event reaches the store, between two requests
Record(e) ==
    /\ mQuery.kind = "none"
    /\ Cardinality(DOMAIN events) < MaxEvents
    /\ e.id \notin DOMAIN events
    /\ events' = SaveRawEvents(adapter, events, <<e>>)
    /\ UNCHANGED <<adapter, sclock, batches, batchRepos, metricsVars>>
    /\ UNCHANGED nonMetricsVars

\* the three rollups of one owner and window
Rollup ==
    /\ mQuery.kind = "none"
    /\ mQuery' = [NoMetricsQuery EXCEPT !.kind = "rollup"]
    /\ mResult' = [org     |-> GetMetricsByOrg(events, "a", MetricsWindow),
                   members |-> GetMembersWithMetrics(events, "a", MetricsWindow),
                   repos   |-> GetReposWithMetrics(events, "a", MetricsWindow)]
    /\ UNCHANGED storeVars
    /\ UNCHANGED nonMetricsVars

\* GetMemberRanking (by = "member") and GetRepoRanking (by = "repo")
GetRanking(by, rankingType, limit) ==
    /\ mQuery.kind = "none"
    /\ mQuery' = [kind |-> by, rankingType |-> rankingType, limit |-> limit]
    /\ LET groups == RankingGroups(adapter, events, "a", by, rankingType, MetricsWindow) IN
       \E order \in OrderByDescLimit(groups, EffectiveLimit(limit)) :
          mResult' = Rankings(groups, order)
    /\ UNCHANGED storeVars
    /\ UNCHANGED nonMetricsVars

GetMemberRanking(rankingType, limit) == GetRanking("member", rankingType, limit)

GetRepoRanking(rankingType, limit) == GetRanking("repo", rankingType, limit)

\* the answer has gone to the requester; the next request may come
MetricsDone ==
    /\ mQuery.kind # "none"
    /\ mQuery' = NoMetricsQuery
    /\ mResult' = <<>>
    /\ UNCHANGED storeVars
    /\ UNCHANGED nonMetricsVars

MetricsNext ==
    \/ \E e \in MetricEvents : Record(e)
    \/ Rollup
    \/ \E t \in RankingTypes, limit \in {-1, 0, 1, 2} : GetMemberRanking(t, limit)
    \/ \E t \in RankingTypes, limit \in {-1, 0, 1, 2} : GetRepoRanking(t, limit)
    \/ MetricsDone

-----------------------------------------------------------------------------
(* Properties of the collection *)

\* the repositories none of whose fetches sent an error in this call
Succeeded == {r \in repos : \A x \in errCh : x[1] # r}

\* the ids of the events the command has as its result: what the plain form
\* returned, what the callback form handed to its callback and was saved
ResultIds ==
    IF variant = "plain" THEN {e.id : e \in collectRes.events} ELSE DOMAIN events

C26_PerRepositoryAtomicity ==
    cpc = "returned" =>
        \A r \in repos :
            LET ids == {e.id : e \in RepoEvents(r, sclock)} IN
            ids \subseteq ResultIds \/ ids \cap ResultIds = {}

\* the worker of repository r calls onProgress in this step
ReportsProgress(r) == wpc[r] # "done" /\ wpc'[r] = "done"

\* C25: within one collect call, the fraction a worker passes to onProgress
\* is at least every fraction passed before it.
C25_ProgressMonotone ==
    [][\A r \in repos :
          ReportsProgress(r) =>
             \A q \in repos :
                wpc[q] = "done" =>
                   ProgressOf(q).num * ProgressOf(r).den <= ProgressOf(r).num * ProgressOf(q).den
      ]_vars

\* a fetcher of repository r is invoked in this step
FetchStarts(r) ==
    wpc'[r] \in {"commits", "prs", "deploys"} /\ wpc'[r] # wpc[r]

\* C2: no fetcher is invoked for a repository whose status in the batch the
\* command works on is completed.
C2_ResumeSkipsCompleted ==
    [][\A r \in repos :
          FetchStarts(r) =>
             RepoName(r) \notin GetCompletedReposForBatch(batchRepos, curBatch)
      ]_vars

\* C3: when the collect call of a caller that tracks a batch has returned,
\* every repository one of whose fetches returned an error has the status
\* failed in that batch, with the error text.
C3_FailedStatusRecorded ==
    (cpc = "returned" /\ curBatch # NoBatch) =>
        \A x \in {y \in errCh : y[2] # "save"} :
            LET key == <<curBatch, Owner, RepoName(x[1])>> IN
            /\ key \in DOMAIN batchRepos
            /\ batchRepos[key].status = "failed"
            /\ batchRepos[key].error # ""

\* C17: when onRepoComplete returned a storage error for a repository, the
\* collect call returns an error to its caller; and when SaveRawEvents
\* failed in the command, the command returns an error.
C17_StorageFailurePropagated ==
    /\ (cpc = "returned" /\ \E x \in errCh : x[2] = "save") => collectRes.err # "nil"
    /\ (cpc = "idle" /\ run > 0 /\ variant = "plain"
           /\ {e.id : e \in collectRes.events} \ DOMAIN events # {}) => cmdErr # "nil"

\* C18: once the context is cancelled during a collect call, the call
\* returns, whatever the budget and although the clock need not advance:
\* every worker blocked by the limiter or queued for a slot finishes.
C18_CancellationUnwinds ==
    (ctxDone /\ cpc = "running") ~> (cpc = "returned")

\* the call has returned under a cancelled context with the budget still low
\* and the reset time ahead, and every worker ended with the context's error
C18_Witness ==
    /\ cpc = "returned" /\ ctxDone
    /\ LowBudget(remaining) /\ WaitDuration(resetTime, now) > 0
    /\ \A r \in repos : wpc[r] = "failed"

\* C27: a collect call that returns after the context was cancelled with a
\* repository not fetched to the end returns an error.
C27_CancelledCollectReturnsError ==
    (cpc = "returned" /\ ctxDone /\ \E r \in repos : wpc[r] = "failed")
        => collectRes.err # "nil"

\* the repositories with a fetch in progress
Fetching == {r \in repos : wpc[r] \in {"commits", "prs", "deploys"}}

\* C6: at every moment of a collect call at most 5 repositories have a fetch
\* in progress, and the semaphore never holds more than its 5 slots.
C6_BoundedParallelism ==
    /\ Cardinality(Fetching) <= PoolSize
    /\ semaphore <= PoolSize
    /\ Cardinality(Fetching) <= semaphore

\* five repositories are fetching while another one waits for a slot
C6_Witness ==
    /\ Cardinality(Fetching) = PoolSize
    /\ \E r \in repos : wpc[r] = "queued"

-----------------------------------------------------------------------------
(* Properties of the store *)

\* two events built from the same (owner, repository, kind, upstream key)
SameSource(e, f) ==
    /\ e.owner = f.owner /\ e.repo = f.repo /\ e.type = f.type
    /\ e.sha = f.sha /\ e.number = f.number

\* C4: events fetched from the same (owner, repository, kind, upstream key)
\* have the same id, whenever they were fetched; and a SaveRawEvents that
\* passes only events whose source has been saved before leaves the number
\* of rows of the events table as it was.
C4_DeterministicIdentity ==
    /\ [](\A e \in fetched : \A f \in fetched : SameSource(e, f) => e.id = f.id)
    /\ [][ (/\ saved' # saved
            /\ \A e \in saved' \ saved : \E f \in saved : SameSource(e, f))
              => Cardinality(DOMAIN events') = Cardinality(DOMAIN events)
         ]_vars

\* the same source was fetched at two moments, both results were saved, and
\* the table holds one row
C4_Witness ==
    \E e \in saved : \E f \in saved :
        /\ SameSource(e, f) /\ e.createdAt # f.createdAt
        /\ Cardinality(DOMAIN events) = 1

\* C29: two fetched events that differ in owner, repository, kind or upstream
\* key have different ids, and once both were saved each of them has its own
\* row in the events table.
C29_InjectiveIds ==
    /\ \A e \in fetched : \A f \in fetched : ~SameSource(e, f) => e.id # f.id
    /\ \A e \in saved : \A f \in saved :
          ~SameSource(e, f) =>
              /\ e.id \in DOMAIN events /\ f.id \in DOMAIN events
              /\ SameSource(events[e.id], e) /\ SameSource(events[f.id], f)

\* the batches stored for the window of request req
BatchesOf(bs, req) ==
    {id \in DOMAIN bs :
        /\ bs[id].mode = req.mode /\ bs[id].owner = req.owner
        /\ bs[id].start = req.start /\ bs[id].end = req.end}

\* C5: the store never holds two batches of one (mode, owner, window), and a
\* CreateOrGetBatch that returns while its window has a batch returns that
\* batch's id and no error, and adds no batch.
C5_OneBatchPerWindow ==
    [][ /\ \A id \in DOMAIN batches' : \A o \in DOMAIN batches' :
              (/\ batches'[id].mode = batches'[o].mode
               /\ batches'[id].owner = batches'[o].owner
               /\ batches'[id].start = batches'[o].start
               /\ batches'[id].end = batches'[o].end) => id = o
        /\ \A c \in Clients :
              (bpc[c] # "idle" /\ bpc'[c] = "idle" /\ BatchesOf(batches, breq[c]) # {})
                 => /\ bres'[c].err = "nil"
                    /\ bres'[c].id \in BatchesOf(batches, breq[c])
                    /\ batches' = batches
      ]_vars

\* C14: after UpdateBatchRepositoryStatus returned without error, the row of
\* (batch, owner, repository) exists and has the status passed, whether or
\* not the row existed before, with either adapter.
C14_UpdateIsUpsert ==
    (sCall.op = "update" /\ sRet = "nil") =>
        LET key == <<sCall.batchID, "a", sCall.repo>> IN
        /\ key \in DOMAIN batchRepos
        /\ batchRepos[key].status = sCall.status

\* C15: a row whose status is completed keeps that status in every step.
C15_CompletedIsTerminal ==
    [][\A key \in DOMAIN batchRepos :
          batchRepos[key].status = "completed" =>
             (key \in DOMAIN batchRepos' /\ batchRepos'[key].status = "completed")
      ]_vars

\* C16: GetCompletedReposForBatch returns a repository exactly when that
\* repository has a row in the batch asked for whose status is completed.
C16_CompletedReposExact ==
    sCall.op = "completed" =>
        \A repo \in RepoNames :
            repo \in sRet <=>
               (/\ <<sCall.batchID, "a", repo>> \in DOMAIN batchRepos
                /\ batchRepos[<<sCall.batchID, "a", repo>>].status = "completed")

\* the call returned one repository while the batch holds another that is
\* not completed and another batch holds a completed one
C16_Witness ==
    /\ sCall.op = "completed"
    /\ Cardinality(sRet) = 1
    /\ \E key \in DOMAIN batchRepos :
          key[1] = sCall.batchID /\ batchRepos[key].status \in {"failed", "processing"}
    /\ \E key \in DOMAIN batchRepos :
          key[1] # sCall.batchID /\ key[3] \notin sRet
              /\ batchRepos[key].status = "completed"

-----------------------------------------------------------------------------
(* Properties of the time series *)

\* the start of the period an instant lies in
PeriodStart(t, granularity) ==
    IF granularity = "month"
    THEN DaysBefore(MonthOf(t)) * Calendar.ticksPerDay
    ELSE (t \div Calendar.ticksPerDay) * Calendar.ticksPerDay

\* the period starts of a window, ascending
PeriodsOf(start, end, granularity) ==
    Ascending({PeriodStart(t, granularity) : t \in start..end})

\* the stored events of the request's owner, window and (for the aggregator)
\* type that lie in the period starting at p
Underlying(p) ==
    {id \in DOMAIN events :
        /\ events[id].owner = "a"
        /\ events[id].timestamp >= tsQuery.start /\ events[id].timestamp <= tsQuery.end
        /\ PeriodStart(events[id].timestamp, tsQuery.granularity) = p
        /\ tsQuery.path = "aggregator" => events[id].type = EventTypeOf(tsQuery.metricType)}

IsZero(dp) ==
    IF tsQuery.path = "aggregator" THEN dp.value = 0
    ELSE dp.commits = 0 /\ dp.prs = 0 /\ dp.deploys = 0

\* C10: the series returned for a request has exactly the periods of its
\* window, from the period of the window's start to the period of its end, in
\* ascending order and one granularity unit apart, and every bucket without
\* an underlying event is zero.
C10_GapFilledSeries ==
    tsQuery.path # "none" =>
        LET expected == PeriodsOf(tsQuery.start, tsQuery.end, tsQuery.granularity) IN
        /\ Len(tsResult) = Len(expected)
        /\ \A i \in DOMAIN tsResult :
              /\ tsResult[i].timestamp = expected[i]
              /\ Underlying(expected[i]) = {} => IsZero(tsResult[i])
        /\ \A i \in 1..(Len(tsResult) - 1) :
              /\ tsResult[i].timestamp < tsResult[i + 1].timestamp
              /\ tsResult[i + 1].timestamp =
                    getNextPeriod(tsResult[i].timestamp, tsQuery.granularity)

-----------------------------------------------------------------------------
(* Properties of the fetchers *)

\* C21: every upstream call of a fetcher, list page or follow-up, comes
\* straight after a Wait of its own that returned nil; after a Wait that
\* returned an error the fetcher has returned and calls nothing.
C21_EveryCallAcquires ==
    /\ [][(fpc \in {"list", "detail"} /\ fetchVars' # fetchVars) => lastWait = "ok"]_vars
    /\ [](lastWait = "err" => (fpc = "returned" /\ fret.err # "nil"))
    /\ [][lastWait = "err" => fetchVars' = fetchVars]_vars

\* GetCommits returned after two pages and a follow-up call for each commit
C21_Witness ==
    /\ fkind = "commits" /\ fpc = "returned" /\ fret.err = "nil"
    /\ fpage = 2 /\ Len(fret.items) = MaxItems /\ fstatus = "200"

\* C22: a fetch of GetCommits, GetPullRequests or GetDeploys in which an
\* upstream call answered with an error other than the 409 to the commit
\* listing and the 404 to the deployment listing returns an error.
C22_OtherErrorsPropagate ==
    (fkind \in {"commits", "prs", "deploys"} /\ fpc = "returned" /\ sawError)
        => fret.err # "nil"

\* the listing call of this step is answered with the status the fetcher
\* takes for an empty repository (commits) or for deployments not supported
Tolerated ==
    /\ fpc = "list" /\ fpc' = "returned"
    /\ \/ fkind = "commits" /\ fstatus' = "409"
       \/ fkind = "deploys" /\ fstatus' = "404"

\* C23: GetCommits answered 409 by the commit listing, and GetDeploys
\* answered 404 by the deployment listing, return no item and no error.
C23_EmptyRepositoryIsNoError ==
    [][Tolerated => (fret'.err = "nil" /\ fret'.items = <<>>)]_vars

\* the pull requests of the listing created inside the window
InWindow(it) ==
    it.createdAt >= FetchWindow.since /\ it.createdAt <= FetchWindow.until

\* the index in the listing of its first item created before the window, or 0
FirstEarly ==
    LET early == {i \in DOMAIN upstream : upstream[i].createdAt < FetchWindow.since}
    IN IF early = {} THEN 0 ELSE CHOOSE i \in early : \A j \in early : i <= j

\* C24: a GetPullRequests that returns no error returns exactly the pull
\* requests of the listing created inside [since, until], in listing order,
\* and has listed no page beyond the one that holds the first pull request
\* created before since.
C24_WindowedPullRequests ==
    (fkind = "prs" /\ fpc = "returned" /\ fret.err = "nil") =>
        /\ fret.items = SelectSeq(upstream, InWindow)
        /\ FirstEarly # 0 => fpage * PageSize >= FirstEarly /\ (fpage - 1) * PageSize < FirstEarly

\* a listing of two pages: a pull request after the window, one inside it at
\* its end, and one before it on the second page
C24_Witness ==
    /\ fkind = "prs" /\ fpc = "returned" /\ fret.err = "nil"
    /\ Len(upstream) = 3 /\ fpage = 2
    /\ upstream[1].createdAt > FetchWindow.until
    /\ upstream[2].createdAt = FetchWindow.until
    /\ upstream[3].createdAt < FetchWindow.since
    /\ Len(fret.items) = 1

-----------------------------------------------------------------------------
(* Properties of the rollups and rankings *)

RECURSIVE SumSeq(_, _)
SumSeq(seq, field) ==
    IF seq = <<>> THEN 0 ELSE Head(seq)[field] + SumSeq(Tail(seq), field)

C11_RollupConsistency ==
    mQuery.kind = "rollup" =>
        /\ SumSeq(mResult.members, "commits") = mResult.org.commits
        /\ SumSeq(mResult.repos, "commits") = mResult.org.commits

\* a rollup over the commits of two members
C11_Witness ==
    /\ mQuery.kind = "rollup"
    /\ Len(mResult.members) = 2
    /\ mResult.org.commits = 2

\* the rows of owner "a" in the window that belong to subject x of the
\* ranking asked for
RowsOfSubject(x) ==
    {id \in DOMAIN events :
        /\ events[id].owner = "a"
        /\ events[id].timestamp >= MetricsWindow.start
        /\ events[id].timestamp <= MetricsWindow.end
        /\ events[id][mQuery.kind] = x}

\* the subjects with a row in the window
Subjects ==
    {events[id][mQuery.kind] :
        id \in {i \in DOMAIN events :
                   /\ events[i].owner = "a"
                   /\ events[i].timestamp >= MetricsWindow.start
                   /\ events[i].timestamp <= MetricsWindow.end}}

\* the length a ranking must have: min(k, distinct subjects), an absent or
\* non-positive k taken as 10
RankingLength ==
    LET k == IF mQuery.limit <= 0 THEN DefaultLimit ELSE mQuery.limit
    IN IF Cardinality(Subjects) < k THEN Cardinality(Subjects) ELSE k

\* length, ranks and subjects of a ranking
RankingShape ==
    /\ Len(mResult) = RankingLength
    /\ \A i \in DOMAIN mResult : mResult[i].rank = i /\ mResult[i].subject \in Subjects
    /\ \A i, j \in DOMAIN mResult : i # j => mResult[i].subject # mResult[j].subject

\* C12 (as stated): a ranking is sorted strictly descending by its value, has
\* length min(k, distinct subjects) with k <= 0 taken as 10, and ranks 1..length.
C12_StrictlyDescending ==
    mQuery.kind \in {"member", "repo"} =>
        /\ RankingShape
        /\ \A i \in 1..(Len(mResult) - 1) : mResult[i].value > mResult[i + 1].value

\* C12 (amended): a ranking is sorted descending by its value, equal values
\* in either order, has length min(k, distinct subjects) with k <= 0 taken
\* as 10, and ranks 1..length without gaps.
C12_RankingSorted ==
    mQuery.kind \in {"member", "repo"} =>
        /\ RankingShape
        /\ \A i \in 1..(Len(mResult) - 1) : mResult[i].value >= mResult[i + 1].value

\* a ranking of two subjects cut to its first by limit 1, and one of two
\* subjects under the default limit
C12_Witness ==
    /\ mQuery.kind \in {"member", "repo"}
    /\ Cardinality(Subjects) = 2
    /\ \/ mQuery.limit = 1 /\ Len(mResult) = 1
       \/ mQuery.limit = 0 /\ Len(mResult) = 2 /\ mResult[1].value > mResult[2].value

\* the counter of subject x for the metric asked for, over the window
MetricOf(x) ==
    LET ofType(type) == {id \in RowsOfSubject(x) : events[id].type = type} IN
    CASE mQuery.rankingType = "commits" -> Cardinality(ofType("commit"))
      [] mQuery.rankingType = "prs" -> Cardinality(ofType("pull_request"))
      [] mQuery.rankingType = "code-changes" ->
            SumField(events, ofType("commit"), "additions")
               + SumField(events, ofType("commit"), "deletions")
      [] OTHER -> Cardinality(ofType("deploy"))

\* C13: the value of every ranking entry is the subject's counter for the
\* metric asked for: commits, pull requests, additions plus deletions, or
\* deploys, with either adapter.
C13_ValueIsMetric ==
    mQuery.kind \in {"member", "repo"} =>
        \A i \in DOMAIN mResult : mResult[i].value = MetricOf(mResult[i].subject)

-----------------------------------------------------------------------------
(* Specifications *)

\* concurrent callers of one rate limiter
InitLimiter ==
    LimInit /\ StoreIdle /\ ClientInit /\ CollectIdle /\ SeriesIdle /\ MetricsIdle /\ FetchIdle

SpecLimiter == InitLimiter /\ [][LimNext]_vars

\* a collect command over NumRepos repositories, run and then run again
InitCollect ==
    /\ LimInit /\ StoreInit /\ ClientInit /\ SeriesIdle /\ MetricsIdle /\ FetchIdle
    /\ CollectInit(1..NumRepos, 2)

SpecCollect == InitCollect /\ [][CollectNext]_vars

\* one run of the organization command over more repositories than the
\* semaphore has slots
InitPool ==
    /\ LimInit /\ StoreIdle /\ ClientInit /\ SeriesIdle /\ MetricsIdle /\ FetchIdle
    /\ CollectInit(1..PoolRepos, 1) /\ cmode = "organization"

SpecPool == InitPool /\ [][CollectNext]_vars

\* one call of one fetcher against every listing of the upstream
InitFetch ==
    /\ LimInit /\ StoreIdle /\ ClientInit /\ CollectIdle /\ SeriesIdle /\ MetricsIdle
    /\ FetchInit

SpecFetch == InitFetch /\ [][FetchNext]_vars

\* one run of CollectOrganizationData over more repositories than the semaphore
\* has slots, under the limiter and a context that can be cancelled.  The Go
\* scheduler runs every goroutine that can take a step; nothing makes the
\* clock reach the reset time or the context be cancelled.
InitUnwind ==
    /\ LimInit /\ StoreIdle /\ ClientInit /\ SeriesIdle /\ MetricsIdle /\ FetchIdle
    /\ CollectInit(1..PoolRepos, 1) /\ cmode = "organization" /\ variant = "plain"

SpecUnwind ==
    /\ InitUnwind /\ [][UnwindNext]_vars
    /\ \A r \in 1..PoolRepos : WF_vars(WorkerStep(r))
    /\ WF_vars(CollectReturn)

\* fetchers saving events into a store of either adapter
InitStore ==
    LimInit /\ StoreInit /\ ClientInit /\ CollectIdle /\ SeriesIdle /\ MetricsIdle /\ FetchIdle

SpecEvents == InitStore /\ [][EventsNext]_vars

\* concurrent callers of CreateOrGetBatch on a store of either adapter
SpecBatch == InitStore /\ [][BatchNext]_vars

\* callers of the batch-repository status operations
SpecStatus == InitStore /\ [][StatusNext]_vars

\* time-series requests over a store that receives events
SpecSeries == InitStore /\ [][SeriesNext]_vars

\* rollup and ranking requests over a store that receives events
SpecMetrics == InitStore /\ [][MetricsNext]_vars

=============================================================================
